---- MODULE Spec2Model ----
(***************************************************************************)
(* A model of kvrpc: the lease-based id Sequence, the DDL worker's job     *)
(* queue and the client-side streaming transaction.                        *)
(*                                                                         *)
(* The three parts share no state.  Each has its own initial predicate,    *)
(* next-state relation and specification (SeqSpec / CrashSpec, DDLSpec,    *)
(* TxnSpec); the variables of the other parts stay at their initial        *)
(* values.                                                                 *)
(***************************************************************************)
EXTENDS Integers, Sequences, FiniteSets

(***************************************************************************)
(* Part 1.  Sequence (src/unnamed/part_002, lines 351-449)                 *)
(***************************************************************************)

\* Two Sequence objects created on the same key of the same KV store.
Seqs == {"s1", "s2"}

\* Bandwidths range over 1..MaxBandwidth (NewSequence rejects 0).
MaxBandwidth == 2

\* The persisted counter is explored up to this value.
MaxPersisted == 4

\* A Sequence object is re-created (process crash) at most this many times
\* in a row without issuing an id in between.
MaxCrash == 1

\* The value txn.Get yields for a key that was never written
\* (provider.ErrKeyNotFound).
Absent == -1

VARIABLES
    persisted,   \* the committed 8-byte counter under s.key, or Absent
    bandwidth,   \* s.bandwidth
    next,        \* s.next
    leased,      \* s.leased
    oldLease,    \* updateLease's local oldLease
    spc,         \* where the Sequence is inside Next(): "idle" (mutex free),
                 \* "commit" (updateLease before txn.Commit), "incr"
                 \* (updateLease returned nil, before s.next++)
    stale,       \* the open lease transaction read a counter that another
                 \* transaction has overwritten since (commit must conflict)
    lastIssued,  \* history: the last id Next() returned on this object or on
                 \* an earlier object of the same owner; 0 when none
    crashed,     \* history: re-creations of the object since lastIssued
    maxIssued,   \* history: the largest id any Next() on the key returned
    resume       \* history: of the latest id of owner s1 that was the first
                 \* one after a re-creation: the id (first), the last id
                 \* issued before (prev) and the re-creations between the two
                 \* (crashes)

seqVars == <<persisted, bandwidth, next, leased, oldLease, spc, stale,
             lastIssued, crashed, maxIssued, resume>>

Max(a, b) == IF a >= b THEN a ELSE b

\* updateLease, lines 382-391: the counter read inside the transaction;
\* a missing key counts as 0.
ReadCounterZero(p) == 0
ReadCounter(p) == IF p = Absent THEN 0 ELSE p

\* updateLease, line 393: lease := s.next + s.bandwidth
NewLeaseShort(n, bw) == n + bw - 1
NewLease(n, bw) == n + bw

\* updateLease, lines 403-406: the value of s.leased after a failed Commit
\* (old is the local oldLease, new the lease just computed).
LeasedAfterFailKeep(old, new) == new
LeasedAfterFail(old, new) == old

\* ReleaseRemaining, lines 419-430: the counter that is committed once the
\* method returns.  It calls txn.Set and then only the deferred txn.Discard,
\* never txn.Commit, so the write is dropped and the counter keeps value p.
ReleasePersisted(p, n) == p

\* NewSequence, lines 362-376, on a key that was never written: the fields
\* of a new object, for the bandwidths bw.
NewSequence(bw) ==
    /\ persisted = Absent
    /\ bandwidth = bw
    /\ next = [s \in Seqs |-> 0]
    /\ leased = [s \in Seqs |-> 0]
    /\ oldLease = [s \in Seqs |-> 0]
    /\ spc = [s \in Seqs |-> "idle"]
    /\ stale = [s \in Seqs |-> FALSE]
    /\ lastIssued = [s \in Seqs |-> 0]
    /\ crashed = [s \in Seqs |-> 0]
    /\ maxIssued = 0
    /\ resume = [first |-> 0, prev |-> 0, crashes |-> 0]

SeqInit == \E bw \in [Seqs -> 1..MaxBandwidth] : NewSequence(bw)

\* The Sequence part where it takes no step.
SeqIdle == NewSequence([s \in Seqs |-> 1])

\* The id handed out by Next(), lines 446-447.
Issue(s) ==
    /\ next' = [next EXCEPT ![s] = next[s] + 1]
    /\ lastIssued' = [lastIssued EXCEPT ![s] = next[s] + 1]
    /\ crashed' = [crashed EXCEPT ![s] = 0]
    /\ maxIssued' = Max(maxIssued, next[s] + 1)
    /\ resume' = IF s = "s1" /\ crashed[s] > 0 /\ lastIssued[s] > 0
                 THEN [first |-> next[s] + 1, prev |-> lastIssued[s], crashes |-> crashed[s]]
                 ELSE resume

\* Next() when the lease is not used up (line 439 false).
NextInLease(s) ==
    /\ spc[s] = "idle"
    /\ next[s] < leased[s]
    /\ Issue(s)
    /\ UNCHANGED <<persisted, bandwidth, leased, oldLease, spc, stale>>

\* Next() -> updateLease up to the call of txn.Commit (lines 379-402):
\* s.next is overwritten with the counter read, s.leased with the new lease.
UpdateLeaseBegin(s) ==
    /\ spc[s] = "idle"
    /\ next[s] >= leased[s]
    /\ NewLease(ReadCounter(persisted), bandwidth[s]) <= MaxPersisted
    /\ next' = [next EXCEPT ![s] = ReadCounter(persisted)]
    /\ oldLease' = [oldLease EXCEPT ![s] = leased[s]]
    /\ leased' = [leased EXCEPT ![s] = NewLease(ReadCounter(persisted), bandwidth[s])]
    /\ spc' = [spc EXCEPT ![s] = "commit"]
    /\ stale' = [stale EXCEPT ![s] = FALSE]
    /\ UNCHANGED <<persisted, bandwidth, lastIssued, crashed, maxIssued, resume>>

\* txn.Commit succeeds (line 403).  The store commits a read-write
\* transaction only if no key it read was overwritten meanwhile (optimistic
\* commit, spec 4.2 and 5); the open lease transactions of the other objects
\* become stale.
UpdateLeaseCommit(s) ==
    /\ spc[s] = "commit"
    /\ ~stale[s]
    /\ persisted' = leased[s]
    /\ spc' = [spc EXCEPT ![s] = "incr"]
    /\ stale' = [t \in Seqs |-> t # s /\ spc[t] = "commit"]
    /\ UNCHANGED <<bandwidth, next, leased, oldLease, lastIssued, crashed, maxIssued, resume>>

\* txn.Commit fails (conflict or any other error, lines 403-407): s.leased is
\* put back, s.next is not, and Next() returns the error.
UpdateLeaseFail(s) ==
    /\ spc[s] = "commit"
    /\ leased' = [leased EXCEPT ![s] = LeasedAfterFail(oldLease[s], leased[s])]
    /\ spc' = [spc EXCEPT ![s] = "idle"]
    /\ stale' = [stale EXCEPT ![s] = FALSE]
    /\ UNCHANGED <<persisted, bandwidth, next, oldLease, lastIssued, crashed, maxIssued, resume>>

\* Next() after a successful updateLease (lines 446-448).
NextAfterLease(s) ==
    /\ spc[s] = "incr"
    /\ Issue(s)
    /\ spc' = [spc EXCEPT ![s] = "idle"]
    /\ UNCHANGED <<persisted, bandwidth, leased, oldLease, stale>>

\* ReleaseRemaining() (lines 411-431).
ReleaseRemaining(s) ==
    /\ spc[s] = "idle"
    /\ IF leased[s] = next[s]
       THEN UNCHANGED <<persisted, leased, stale>>
       ELSE /\ persisted' = ReleasePersisted(persisted, next[s])
            /\ leased' = [leased EXCEPT ![s] = next[s]]
            /\ stale' = [t \in Seqs |->
                           IF persisted' # persisted /\ spc[t] = "commit"
                           THEN TRUE ELSE stale[t]]
    /\ UNCHANGED <<bandwidth, next, oldLease, spc, lastIssued, crashed, maxIssued, resume>>

\* The process stops at any point of any method and the owner creates the
\* Sequence again on the same key with the same bandwidth (NewSequence,
\* lines 362-376): the in-memory fields start from zero, an open transaction
\* is lost.
Crash(s) ==
    /\ crashed[s] < MaxCrash
    /\ next' = [next EXCEPT ![s] = 0]
    /\ leased' = [leased EXCEPT ![s] = 0]
    /\ oldLease' = [oldLease EXCEPT ![s] = 0]
    /\ spc' = [spc EXCEPT ![s] = "idle"]
    /\ stale' = [stale EXCEPT ![s] = FALSE]
    /\ crashed' = [crashed EXCEPT ![s] = crashed[s] + 1]
    /\ UNCHANGED <<persisted, bandwidth, lastIssued, maxIssued, resume>>


(***************************************************************************)
(* Part 2.  DDL worker (src/unnamed/part_002, lines 1-339)                 *)
(***************************************************************************)

\* At most this many jobs are ever enqueued.
MaxJobs == 2

\* The history counter runs stops counting here.
RunCap == 4

\* jobMaxErrorCount, line 57
jobMaxErrorCount == 3

DBNames == {"a", "b"}

\* The job types: ActionCreateSchema and any type runJob does not know.
JobTypes == {"CreateSchema", "Other"}

\* What the job's raw argument decodes to: "ok" a DBInfo with collections,
\* "bad" an argument DecodeArg rejects, "nilcoll" a DBInfo whose collection
\* list holds a nil entry after a valid one (collection.ID at line 213 then
\* dereferences nil).
ArgKinds == {"ok", "bad", "nilcoll"}

JobStates == {"None", "Running", "Done", "Cancelled", "Cancelling", "Synced", "RollbackDone"}

\* The nil *model.Job.
NoJob == [id |-> 0, tp |-> "Other", st |-> "None", errorCount |-> 0,
          err |-> "nil", arg |-> "ok", name |-> "a"]

VARIABLES
    queue,          \* committed DDLJobList: the jobs, head first
    history,        \* committed DDLJobHistory: the jobs in the order added
    dbs,            \* committed dbs hash: the names of the databases
    colls,          \* the names of the databases whose collections are all in
                    \* their database's hash
    schemaVersion,  \* committed schemaVersion counter
    diffs,          \* the schema versions a SchemaDiff is stored for
    docSeqs,        \* ids of the jobs whose collections have a document sequence
    enqueued,       \* number of jobs enqueued so far (the last job id)
    wpc,            \* worker: "wait" in start's select, "loop" inside
                    \* handleJobQueue's for, "fault" after an unrecovered panic
    wloc,           \* handleJobQueue's variables schemaVersion, failNow,
                    \* runJobErr, cancelFunc (0 is nil, else the id of the job
                    \* whose sequences cf drops) and job
    runs            \* history: the job runJob was last executed on (line 93)
                    \* and how often it has been executed on it

ddlVars == <<queue, history, dbs, colls, schemaVersion, diffs, docSeqs, enqueued,
             wpc, wloc, runs>>

\* model.Job's state predicates (package model is not among the sources).
IsDone(j) == j.st = "Done"
IsRollbackDone(j) == j.st = "RollbackDone"
IsCancelled(j) == j.st = "Cancelled"
IsSynced(j) == j.st = "Synced"
IsFinished(j) == j.st \in {"Done", "RollbackDone", "Cancelled"}

\* meta's DDL queue operations on the transaction's view m of the meta store
\* (they are not among the sources; spec 4.1 and 4.3: list index, list set,
\* left pop, hash set).
GetDDLJobByIdx(m, i) == IF i >= 0 /\ i < Len(m.queue) THEN m.queue[i + 1] ELSE NoJob
UpdateDDLJob(m, i, job) == [m EXCEPT !.queue = [m.queue EXCEPT ![i + 1] = job]]
DeQueueDDLJob(m) == [m EXCEPT !.queue = Tail(m.queue)]
AddHistoryDDLJob(m, job) == [m EXCEPT !.history = Append(m.history, job)]
EnQueueDDLJob(m, job) == [m EXCEPT !.queue = Append(m.queue, job)]

\* worker.getFirstJob, lines 172-175
getLastJob(m) == GetDDLJobByIdx(m, Len(m.queue) - 1)
getFirstJob(m) == GetDDLJobByIdx(m, 0)

\* worker.updateJob, lines 156-159
updateJob(m, job) == UpdateDDLJob(m, 0, job)

\* worker.finishJob, lines 161-170
finishJob(m, job) == AddHistoryDDLJob(DeQueueDDLJob(m), job)

\* The fresh variables of a handleJobQueue call, lines 63-70.
FreshLocals == [sv |-> 0, failNow |-> FALSE, runJobErr |-> "nil", cancelFunc |-> 0,
                job |-> NoJob]

\* handleJobQueue line 102: job.ErrorCount >= jobMaxErrorCount
ReachedMaxErrorsLate(n) == n > jobMaxErrorCount
ReachedMaxErrors(n) == n >= jobMaxErrorCount

\* The step of onCreateSchema at which a KV operation fails, if it gets
\* there: the lookup of the name (line 185), CreateSequence (213),
\* CreateDatabase (222), CreateCollection (227), GenSchemaVersion (246) or
\* SetSchemaDiff (259).
KVFaults == {"none", "lookup", "sequence", "database", "collection", "version", "diff"}

\* worker.onCreateSchema, lines 177-242.  m is the transaction's view, seqs
\* the document sequences (they live in the KV store outside the
\* transaction, line 213), fault the KV operation that fails.  What was
\* written to m before the failing operation stays written in the
\* transaction.  The result holds the job, the four return values, whether
\* it panicked, the view and the sequences afterwards.
onCreateSchema(m, job, seqs, fault) ==
    LET ret == [job |-> job, sv |-> 0, cancelFunc |-> 0, failNow |-> FALSE,
                err |-> "nil", panicked |-> FALSE, m |-> m, seqs |-> seqs]
        \* the deferred cf() (lines 205-209) drops the sequences
        failed == [ret EXCEPT !.err = "KVError", !.seqs = seqs \ {job.id}]
        withDB == [m EXCEPT !.dbs = @ \cup {job.name}]
        withColls == [withDB EXCEPT !.colls = @ \cup {job.name}]
        withVersion == [withColls EXCEPT !.sv = @ + 1]
        withDiff == [withVersion EXCEPT !.diffs = @ \cup {m.sv + 1}]
    IN  IF job.arg = "bad"
        THEN \* lines 180-183
             [ret EXCEPT !.job = [job EXCEPT !.st = "Cancelled"], !.err = "DecodeErr"]
        ELSE IF fault = "lookup"
        THEN \* lines 185-188
             [ret EXCEPT !.err = "KVError"]
        ELSE IF job.name \in m.dbs
        THEN \* lines 189-193
             [ret EXCEPT !.failNow = TRUE, !.err = "DBAlreadyExists"]
        ELSE IF job.arg = "nilcoll"
        THEN \* line 213 panics after the sequence of an earlier collection was
             \* created; the deferred function sees err = nil and drops nothing
             [ret EXCEPT !.panicked = TRUE, !.seqs = seqs \cup {job.id}]
        ELSE IF fault \in {"sequence", "database"}
        THEN \* lines 213-216 and 222-225
             failed
        ELSE IF fault = "collection"
        THEN \* lines 226-231
             [failed EXCEPT !.m = withDB]
        ELSE IF fault = "version"
        THEN \* lines 233-236 and 246-249
             [failed EXCEPT !.m = withColls]
        ELSE IF fault = "diff"
        THEN \* lines 233-236 and 259-260
             [failed EXCEPT !.m = withVersion, !.sv = m.sv + 1]
        ELSE \* lines 211-240
             [ret EXCEPT !.job = [job EXCEPT !.st = "Done"],
                         !.sv = m.sv + 1,
                         !.cancelFunc = job.id,
                         !.m = withDiff,
                         !.seqs = seqs \cup {job.id}]

\* worker.runJob, lines 140-154
runJob(m, job, seqs, fault) ==
    LET ret == [job |-> job, sv |-> 0, cancelFunc |-> 0, failNow |-> FALSE,
                err |-> "nil", panicked |-> FALSE, m |-> m, seqs |-> seqs]
    IN  IF IsFinished(job) THEN ret
        ELSE IF job.tp = "CreateSchema" THEN onCreateSchema(m, job, seqs, fault)
        ELSE [ret EXCEPT !.job = [job EXCEPT !.st = "Cancelled"], !.err = "InvalidJobType"]


\* handleJobQueue's variables after runJob returned r (lines 92-96): the
\* four that runJob returns are assigned only when runJob returns, so that
\* after a panic they keep the values of the previous iteration, held in
\* loc.
AfterRun(loc, r) ==
    [m |-> r.m,
     seqs |-> r.seqs,
     sv |-> IF r.panicked THEN loc.sv ELSE r.sv,
     cancelFunc |-> IF r.panicked THEN loc.cancelFunc ELSE r.cancelFunc,
     failNow |-> IF r.panicked THEN loc.failNow ELSE r.failNow,
     runJobErr |-> IF r.panicked THEN loc.runJobErr ELSE r.err,
     job |-> IF r.panicked THEN [r.job EXCEPT !.st = "Cancelling"] ELSE r.job]

\* handleJobQueue lines 98-101: the error is counted and stored in the job.
Counted(ran) ==
    IF ran.runJobErr # "nil"
    THEN [ran.job EXCEPT !.errorCount = @ + 1, !.err = ran.runJobErr]
    ELSE ran.job

\* handleJobQueue lines 102-114: the job, as counted, is archived or
\* written back.
Settle(ran, counted) ==
    [m |-> IF \/ ran.runJobErr # "nil"
                 /\ (ran.failNow \/ ReachedMaxErrors(counted.errorCount))
              \/ IsCancelled(counted)
           THEN \* lines 102-105 and 108-111
                finishJob(ran.m, counted)
           ELSE \* lines 113-114
                updateJob(ran.m, counted),
     loc |-> [sv |-> ran.sv, failNow |-> ran.failNow, runJobErr |-> ran.runJobErr,
              cancelFunc |-> ran.cancelFunc, job |-> counted],
     seqs |-> ran.seqs,
     ran |-> TRUE,
     failed |-> ran.runJobErr # "nil"]

\* handleJobQueue lines 84-90: a job that is Done is set Synced and
\* archived, one that is RollbackDone is archived as it is.
SyncDone(m, loc, seqs, j2) ==
    [m |-> finishJob(m, j2), loc |-> [loc EXCEPT !.job = j2],
     seqs |-> seqs, ran |-> FALSE, failed |-> FALSE]

\* The function handleJobQueue passes to RunInNewUpdateTxnWithCancel, lines
\* 72-115, for the first job of a queue that is not empty.  loc holds
\* handleJobQueue's variables.  The result: the view, the variables and the
\* sequences afterwards, whether runJob was executed (ran) and whether line
\* 98 found runJobErr # nil (failed).
TxnBodyOn(m, loc, seqs, fault, job) ==
    IF IsRollbackDone(job) THEN SyncDone(m, loc, seqs, job)
    ELSE IF IsDone(job) THEN SyncDone(m, loc, seqs, [job EXCEPT !.st = "Synced"])
    ELSE Settle(AfterRun(loc, runJob(m, job, seqs, fault)),
                Counted(AfterRun(loc, runJob(m, job, seqs, fault))))

TxnBody(m, loc, seqs, fault) == TxnBodyOn(m, loc, seqs, fault, getFirstJob(m))

\* The committed meta store as a transaction sees it.
MetaView == [queue |-> queue, history |-> history, dbs |-> dbs, colls |-> colls,
             sv |-> schemaVersion, diffs |-> diffs]

DDLInit ==
    /\ queue = <<>>
    /\ history = <<>>
    /\ dbs = {}
    /\ colls = {}
    /\ schemaVersion = 0
    /\ diffs = {}
    /\ docSeqs = {}
    /\ enqueued = 0
    /\ wpc = "wait"
    /\ wloc = FreshLocals
    /\ runs = [id |-> 0, n |-> 0]

\* A submitter commits a transaction that appends a new job, in state None
\* and with the next job id, to the list (the submitting code is not among
\* the sources; spec 3 "Job" and 4.6).
Enqueue ==
    /\ enqueued < MaxJobs
    /\ \E tp \in JobTypes, arg \in ArgKinds, name \in DBNames :
         \* the argument of a job is looked at only by onCreateSchema, the
         \* name only once the argument is decoded; the names are
         \* interchangeable, so the first job takes "a"
         /\ (tp = "Other" => arg = "ok")
         /\ (tp = "Other" \/ arg = "bad" \/ enqueued = 0 => name = "a")
         /\ queue' = EnQueueDDLJob(MetaView,
                        [id |-> enqueued + 1, tp |-> tp, st |-> "None", errorCount |-> 0,
                         err |-> "nil", arg |-> arg, name |-> name]).queue
    /\ enqueued' = enqueued + 1
    /\ UNCHANGED <<history, dbs, colls, schemaVersion, diffs, docSeqs, wpc, wloc, runs>>

\* worker.start, lines 43-49: the ticker or the notify channel wakes the
\* worker, which calls handleJobQueue with fresh variables.
WorkerWake ==
    /\ wpc = "wait"
    /\ wpc' = "loop"
    /\ wloc' = FreshLocals
    /\ UNCHANGED <<queue, history, dbs, colls, schemaVersion, diffs, docSeqs, enqueued, runs>>

\* One iteration of handleJobQueue's loop that finds the queue empty
\* (lines 79-82 and 118-120): handleJobQueue returns.
WorkerNoJob ==
    /\ wpc = "loop"
    /\ getFirstJob(MetaView) = NoJob
    /\ wpc' = "wait"
    /\ wloc' = FreshLocals
    /\ UNCHANGED <<queue, history, dbs, colls, schemaVersion, diffs, docSeqs, enqueued, runs>>

\* runs after one more execution of runJob on job id.
Bump(id) == IF runs.id # id THEN [id |-> id, n |-> 1]
            ELSE [runs EXCEPT !.n = IF @ < RunCap THEN @ + 1 ELSE @]

\* The transaction of one iteration, with result b on job id, commits
\* (lines 121-137).
Committed(b, id) ==
    /\ queue' = b.m.queue
    /\ history' = b.m.history
    /\ dbs' = b.m.dbs
    /\ colls' = b.m.colls
    /\ schemaVersion' = b.m.sv
    /\ diffs' = b.m.diffs
    /\ docSeqs' = b.seqs
    /\ wloc' = b.loc
    /\ runs' = IF b.ran THEN Bump(id) ELSE runs

\* One iteration of handleJobQueue's loop whose transaction commits
\* (lines 71-137).
WorkerStep ==
    /\ wpc = "loop"
    /\ getFirstJob(MetaView) # NoJob
    /\ \E fault \in KVFaults :
         Committed(TxnBody(MetaView, wloc, docSeqs, fault), getFirstJob(MetaView).id)
    /\ UNCHANGED <<enqueued, wpc>>

\* The transaction of one iteration does not commit: the function passed
\* as cancel (lines 115-117) runs on the variables the body left.
Aborted(b, id) ==
    /\ wloc' = FreshLocals
    /\ docSeqs' = IF b.loc.cancelFunc = 0 THEN b.seqs
                  ELSE b.seqs \ {b.loc.cancelFunc}
    /\ wpc' = IF b.loc.cancelFunc = 0 THEN "fault" ELSE "wait"
    /\ runs' = IF b.ran THEN Bump(id) ELSE runs

\* One iteration whose transaction fails to commit: nothing it wrote to the
\* meta store is kept, the function passed as cancel (lines 115-117) runs
\* and handleJobQueue returns the error (lines 128-130), which ends the life
\* of its variables.  Calling the nil cancelFunc is a nil dereference that
\* nothing recovers.
WorkerAbort ==
    /\ wpc = "loop"
    /\ getFirstJob(MetaView) # NoJob
    /\ \E fault \in KVFaults :
         Aborted(TxnBody(MetaView, wloc, docSeqs, fault), getFirstJob(MetaView).id)
    /\ UNCHANGED <<queue, history, dbs, colls, schemaVersion, diffs, enqueued>>

\* The process is started again after the worker's panic ended it: a new
\* worker enters start's loop.
WorkerRestart ==
    /\ wpc = "fault"
    /\ wpc' = "wait"
    /\ wloc' = FreshLocals
    /\ UNCHANGED <<queue, history, dbs, colls, schemaVersion, diffs, docSeqs, enqueued, runs>>

(***************************************************************************)
(* Part 2b.  DDL.checkJob (src/unnamed/part_002, lines 263-299): the        *)
(* submitter of a job waits for it to reach the history                    *)
(***************************************************************************)

VARIABLES
    cpc,     \* checkJob: "idle" before the call, "loop" at its select,
             \* "returned"
    cjob,    \* the id of the job it was called for
    cctx,    \* whether the context is cancelled
    cret     \* what it returned; "panic" for the panic of line 296

chkVars == <<cpc, cjob, cctx, cret>>

ChkInit ==
    /\ cpc = "idle"
    /\ cjob = 0
    /\ cctx = FALSE
    /\ cret = "none"

\* DDL.GetHistoryJob on the committed history (it is not among the sources;
\* spec 4.3): the job with that id, or the nil job.
GetHistoryJob(id) ==
    IF \E i \in 1..Len(history) : history[i].id = id
    THEN history[CHOOSE i \in 1..Len(history) : history[i].id = id]
    ELSE NoJob

\* The submitter of job id calls checkJob for it once the job is enqueued
\* (line 263).
CheckStart(id) ==
    /\ cpc = "idle"
    /\ id \in 1..enqueued
    /\ cpc' = "loop"
    /\ cjob' = id
    /\ UNCHANGED <<cctx, cret>>

\* The caller cancels the context.
CheckCancel ==
    /\ cpc = "loop"
    /\ ~cctx
    /\ cctx' = TRUE
    /\ UNCHANGED <<cpc, cjob, cret>>

\* The select takes <-ctx.Done(), lines 273-275.
CheckCtxDone ==
    /\ cpc = "loop"
    /\ cctx
    /\ cpc' = "returned"
    /\ cret' = "ctx"
    /\ UNCHANGED <<cjob, cctx>>

\* Lines 278-296 for the history job hj: "continue", or the value returned.
PollIgnoresState(hj, failed) ==
    IF failed \/ hj = NoJob THEN "continue"
    ELSE IF hj.err # "nil" THEN hj.err ELSE "nil"
PollResult(hj, failed) ==
    IF failed \/ hj = NoJob THEN "continue"
    ELSE IF IsSynced(hj) THEN "nil"
    ELSE IF hj.err # "nil" THEN hj.err
    ELSE "panic"

\* The select takes <-ticker.C (line 272) and the history is read, lines
\* 278-296; failed: GetHistoryJob returns an error.
CheckPoll(failed) ==
    /\ cpc = "loop"
    /\ IF PollResult(GetHistoryJob(cjob), failed) = "continue"
       THEN UNCHANGED <<cpc, cret>>
       ELSE /\ cpc' = "returned"
            /\ cret' = PollResult(GetHistoryJob(cjob), failed)
    /\ UNCHANGED <<cjob, cctx>>

(***************************************************************************)
(* Part 2c.  The worker's notify channel (src/unnamed/part_002, lines      *)
(* 32-54 and 313-318)                                                      *)
(***************************************************************************)

Submitters == {"u1", "u2", "u3"}

\* The capacity of jobCh: make(chan struct{}), line 33.
jobChCap == 0

VARIABLES
    jobCh,     \* the number of wake-ups the channel holds
    npc,       \* the worker: "select" in start's select, "handle" inside
               \* handleJobQueue
    woke,      \* what ended the worker's last select: "ticker" or "jobCh"
    subpc,     \* per submitter: "idle", or "notify" between the commit of
               \* its job and notifyWorker
    waiting,   \* the jobs in the committed queue
    nsub,      \* the jobs submitted so far
    handled,   \* the jobs the worker took from the queue so far
    sent       \* what became of the last wake-up: "taken" by the waiting
               \* worker, "kept" in the channel, or "dropped"

ntfVars == <<jobCh, npc, woke, subpc, waiting, nsub, handled, sent>>

NtfInit ==
    /\ jobCh = 0
    /\ npc = "select"
    /\ woke = "none"
    /\ subpc = [u \in Submitters |-> "idle"]
    /\ waiting = 0
    /\ nsub = 0
    /\ handled = 0
    /\ sent = "none"

\* A submitter commits its job to the queue (the submitting code is not
\* among the sources; spec 4.6) and goes on to notifyWorker.
SubmitJob(u) ==
    /\ subpc[u] = "idle"
    /\ nsub < MaxJobs
    /\ nsub' = nsub + 1
    /\ waiting' = waiting + 1
    /\ subpc' = [subpc EXCEPT ![u] = "notify"]
    /\ UNCHANGED <<jobCh, npc, woke, handled, sent>>

\* DDL.notifyWorker, lines 313-318: the send succeeds when the worker is
\* receiving in its select or the channel has room; otherwise the default
\* case is taken.
notifyWorker(u) ==
    /\ subpc[u] = "notify"
    /\ subpc' = [subpc EXCEPT ![u] = "idle"]
    /\ IF npc = "select" /\ jobCh = 0
       THEN /\ npc' = "handle"
            /\ woke' = "jobCh"
            /\ sent' = "taken"
            /\ UNCHANGED jobCh
       ELSE IF jobCh < jobChCap
       THEN /\ jobCh' = jobCh + 1
            /\ sent' = "kept"
            /\ UNCHANGED <<npc, woke>>
       ELSE /\ sent' = "dropped"
            /\ UNCHANGED <<jobCh, npc, woke>>
    /\ UNCHANGED <<waiting, nsub, handled>>

\* worker.start, lines 43-47: the select takes the ticker, or a wake-up
\* the channel holds, and handleJobQueue is called.
SelectReady == {"ticker"} \cup (IF jobCh > 0 THEN {"jobCh"} ELSE {})
WorkerSelect ==
    /\ npc = "select"
    /\ \E src \in SelectReady :
         /\ woke' = src
         /\ jobCh' = IF src = "jobCh" THEN jobCh - 1 ELSE jobCh
    /\ npc' = "handle"
    /\ UNCHANGED <<subpc, waiting, nsub, handled, sent>>

\* One iteration of handleJobQueue's loop on the first job of the queue
\* (lines 71-137).
HandleJob ==
    /\ npc = "handle"
    /\ waiting > 0
    /\ waiting' = waiting - 1
    /\ handled' = handled + 1
    /\ UNCHANGED <<jobCh, npc, woke, subpc, nsub, sent>>

\* handleJobQueue finds the queue empty and returns to start's select
\* (lines 79-82 and 118-120).
HandleNoJob ==
    /\ npc = "handle"
    /\ waiting = 0
    /\ npc' = "select"
    /\ UNCHANGED <<jobCh, woke, subpc, waiting, nsub, handled, sent>>


(***************************************************************************)
(* Part 3.  Client transaction (src/client/client_txn.go) over the server  *)
(* and the KV store                                                        *)
(***************************************************************************)

\* Each client transaction sends at most this many data frames.
MaxOps == 2

Txns == {"t1", "t2"}
Keys == {"k1", "k2"}
Vals == {"v1", "v2"}

\* No value under a key: provider.ErrKeyNotFound.
NoVal == "KeyNotFound"

\* No pending write of a key in a KV transaction.
Unset == "unset"

VARIABLES
    store,    \* the committed key/value pairs
    writer,   \* history: the transaction whose commit wrote store[k], or "init"
    tst,      \* client Txn: "new" (not created), "open" (inside Update/View),
              \* "ended"
    update,   \* txn.update
    sw,       \* txn.sw # nil: the stream of the transaction is open
    nsent,    \* request frames the client sent for the transaction
    nrecv,    \* response frames the client read for the transaction
    lastFrame,\* the last request frame sent
    res,      \* what the last method called on the Txn returned
    ended,    \* history: "commit" / "discard" once the client called it
    srv,      \* server: the KV transaction bound to the stream: "none",
              \* "open", "committed", "discarded"
    snap,     \* the snapshot the KV transaction reads
    wr,       \* its pending writes (Unset, a value, or NoVal for a delete)
    rd,       \* the keys it read
    dirty,    \* the keys committed by others since it was opened
    touched,  \* history: the keys committed by others since Update/View
              \* created the Txn
    scanned   \* history: the option, the view and the entries of the last
              \* Scan of the Txn

txnVars == <<store, writer, tst, update, sw, nsent, nrecv, lastFrame, res, ended,
             srv, snap, wr, rd, dirty, touched, scanned>>

NoFrame == [cmd |-> "none", start |-> FALSE, end |-> FALSE, rw |-> FALSE]
NoRes == [op |-> "none", err |-> "nil", val |-> NoVal]

\* The keys in ascending byte order, and the prefixes a Scan asks for.
KeyOrder == <<"k1", "k2">>
Prefixes == {"k", "k2"}
HasPrefix(k, prefix) == prefix = "k" \/ prefix = k

\* kvrpc.MaxEntry, the most entries the client asks for in one Scan (its
\* value is not among the sources), and the limits a caller passes.
MaxEntry == 1
Limits == 0..(MaxEntry + 1)

NoScan == [prefix |-> "none", limit |-> 0, sent |-> FALSE,
           view |-> [k \in Keys |-> NoVal], entries |-> <<>>]

TxnInit ==
    /\ store = [k \in Keys |-> NoVal]
    /\ writer = [k \in Keys |-> "init"]
    /\ tst = [t \in Txns |-> "new"]
    /\ update = [t \in Txns |-> FALSE]
    /\ sw = [t \in Txns |-> FALSE]
    /\ nsent = [t \in Txns |-> 0]
    /\ nrecv = [t \in Txns |-> 0]
    /\ lastFrame = [t \in Txns |-> NoFrame]
    /\ res = [t \in Txns |-> NoRes]
    /\ ended = [t \in Txns |-> "no"]
    /\ srv = [t \in Txns |-> "none"]
    /\ snap = [t \in Txns |-> [k \in Keys |-> NoVal]]
    /\ wr = [t \in Txns |-> [k \in Keys |-> Unset]]
    /\ rd = [t \in Txns |-> {}]
    /\ dirty = [t \in Txns |-> {}]
    /\ touched = [t \in Txns |-> {}]
    /\ scanned = [t \in Txns |-> NoScan]

\* A request that opens a stream whether or not the Txn has one.
requestOpens(t, cmd, end) ==
    [noop |-> FALSE, frame |-> [cmd |-> cmd, start |-> TRUE, end |-> end, rw |-> update[t]]]

\* Txn.request, lines 65-95: the frame that goes out for cmd, if any.
\* On an open stream it is written to it (lines 66-71); without a stream
\* Commit and Discard are no-ops (lines 73-77) and any other command opens
\* the stream with the stream flag, the opaque bit of an update transaction
\* and the end flag if asked (lines 79-93).
request(t, cmd, end) ==
    IF sw[t]
    THEN [noop |-> FALSE, frame |-> [cmd |-> cmd, start |-> FALSE, end |-> end, rw |-> FALSE]]
    ELSE IF cmd \in {"Commit", "Discard"}
    THEN [noop |-> TRUE, frame |-> NoFrame]
    ELSE [noop |-> FALSE, frame |-> [cmd |-> cmd, start |-> TRUE, end |-> end, rw |-> update[t]]]

\* Txn.Set line 29 and Txn.Delete line 122: a read-only Txn refuses.
RefusesNothing(t) == FALSE
RefusesMutation(t) == ~update[t]

\* The request Txn.Discard makes, line 184.
DiscardAsCommit(t) == request(t, "Commit", TRUE)
DiscardRequest(t) == request(t, "Discard", TRUE)

\* The request Txn.Commit makes, line 163.
CommitNoEnd(t) == request(t, "Commit", FALSE)
CommitRequest(t) == request(t, "Commit", TRUE)

\* The server's side of one frame (the command handlers are not among the
\* sources; spec 4.5): the first frame of a stream opens a KV transaction,
\* read-write iff the opaque bit is set, on a snapshot of the store.
SrvSnap(t, f) == IF f.start THEN store ELSE snap[t]
SrvWr(t, f) == IF f.start THEN [k \in Keys |-> Unset] ELSE wr[t]
SrvRd(t, f) == IF f.start THEN {} ELSE rd[t]
SrvDirty(t, f) == IF f.start THEN {} ELSE dirty[t]
SrvRW(t, f) == IF f.start THEN f.rw ELSE update[t]

\* The client sent frame f and read its response r (request and
\* getRespFrame, lines 52-95).
Exchange(t, f, r) ==
    /\ sw' = [sw EXCEPT ![t] = TRUE]
    /\ nsent' = [nsent EXCEPT ![t] = @ + 1]
    /\ nrecv' = [nrecv EXCEPT ![t] = @ + 1]
    /\ lastFrame' = [lastFrame EXCEPT ![t] = f]
    /\ res' = [res EXCEPT ![t] = r]

\* Client.Update / Client.View call newTxn (lines 23-25) and hand the Txn to
\* the body.
Begin(t, u) ==
    /\ tst[t] = "new"
    /\ tst' = [tst EXCEPT ![t] = "open"]
    /\ update' = [update EXCEPT ![t] = u]
    /\ UNCHANGED <<store, writer, sw, nsent, nrecv, lastFrame, res, ended,
                   srv, snap, wr, rd, dirty, touched, scanned>>

\* A write of value v (NoVal: a delete) to key k by method op.
Mutate(t, op, cmd, k, v) ==
    /\ tst[t] = "open"
    /\ IF RefusesMutation(t)
       THEN /\ res' = [res EXCEPT ![t] = [op |-> op, err |-> "MutateForROTxn", val |-> NoVal]]
            /\ UNCHANGED <<store, writer, tst, update, sw, nsent, nrecv, lastFrame,
                           ended, srv, snap, wr, rd, dirty, touched, scanned>>
       ELSE LET f == request(t, cmd, FALSE).frame
                rw == SrvRW(t, f)
            IN  /\ nsent[t] < MaxOps
                /\ Exchange(t, f, [op |-> op, val |-> NoVal,
                                   err |-> IF rw THEN "nil" ELSE "ReadOnlyTxn"])
                /\ srv' = [srv EXCEPT ![t] = "open"]
                /\ snap' = [snap EXCEPT ![t] = SrvSnap(t, f)]
                /\ wr' = [wr EXCEPT ![t] = IF rw THEN [SrvWr(t, f) EXCEPT ![k] = v]
                                           ELSE SrvWr(t, f)]
                /\ rd' = [rd EXCEPT ![t] = SrvRd(t, f)]
                /\ dirty' = [dirty EXCEPT ![t] = SrvDirty(t, f)]
                /\ UNCHANGED <<store, writer, tst, update, ended, touched, scanned>>

\* Txn.Set, lines 28-50
Set(t, k, v) == Mutate(t, "Set", "Set", k, v)

\* Txn.Delete, lines 121-143
Delete(t, k) == Mutate(t, "Delete", "Delete", k, NoVal)

\* Txn.Get, lines 98-115
Get(t, k) ==
    /\ tst[t] = "open"
    /\ nsent[t] < MaxOps
    /\ LET f == request(t, "Get", FALSE).frame
           w == SrvWr(t, f)[k]
           v == IF w # Unset THEN w ELSE SrvSnap(t, f)[k]
       IN  /\ Exchange(t, f, [op |-> "Get", val |-> v,
                              err |-> IF v = NoVal THEN "KeyNotFound" ELSE "nil"])
           /\ srv' = [srv EXCEPT ![t] = "open"]
           /\ snap' = [snap EXCEPT ![t] = SrvSnap(t, f)]
           /\ wr' = [wr EXCEPT ![t] = SrvWr(t, f)]
           /\ rd' = [rd EXCEPT ![t] = SrvRd(t, f) \cup {k}]
           /\ dirty' = [dirty EXCEPT ![t] = SrvDirty(t, f)]
    /\ UNCHANGED <<store, writer, tst, update, ended, touched, scanned>>

\* The provider's Txn.Exists (part_001, lines 28-41) on the value the
\* transaction sees under the key.
ExistsPassesError(v) ==
    IF v = NoVal THEN [exists |-> FALSE, err |-> "KeyNotFound"]
    ELSE [exists |-> TRUE, err |-> "nil"]
ProviderExists(v) ==
    IF v = NoVal THEN [exists |-> FALSE, err |-> "nil"]
    ELSE [exists |-> TRUE, err |-> "nil"]

\* What the KV transaction of stream t sees, or would see if a frame opened
\* it now.
ViewOf(t) ==
    [k \in Keys |-> IF sw[t] /\ wr[t][k] # Unset THEN wr[t][k]
                    ELSE IF sw[t] THEN snap[t][k] ELSE store[k]]

\* Txn.Exists (the test calls it, part_000 lines 99 and 124; the server runs
\* the provider's Exists on the stream's transaction)
Exists(t, k) ==
    /\ tst[t] = "open"
    /\ nsent[t] < MaxOps
    /\ LET f == request(t, "Exists", FALSE).frame
           e == ProviderExists(ViewOf(t)[k])
       IN  /\ Exchange(t, f, [op |-> "Exists", err |-> e.err,
                              val |-> IF e.exists THEN "true" ELSE "false"])
           /\ srv' = [srv EXCEPT ![t] = "open"]
           /\ snap' = [snap EXCEPT ![t] = SrvSnap(t, f)]
           /\ wr' = [wr EXCEPT ![t] = SrvWr(t, f)]
           /\ rd' = [rd EXCEPT ![t] = SrvRd(t, f) \cup {k}]
           /\ dirty' = [dirty EXCEPT ![t] = SrvDirty(t, f)]
    /\ UNCHANGED <<store, writer, tst, update, ended, touched, scanned>>

\* Txn.Scan line 200: `if option.Limit <= 0 { return }`
SkipsScan(limit) == limit <= 0

\* Txn.Scan lines 204-206: the limit sent is at most MaxEntry.
NoClamp(limit) == limit
ClampLimit(limit) == IF limit > MaxEntry THEN MaxEntry ELSE limit

\* The server's scan (its handler and scanByBadgerTxn are not among the
\* sources; spec 6 "Scan result ordering"): it walks the keys of the view
\* from the i-th on in ascending order and collects those with the prefix
\* until it has limit entries.
RECURSIVE ScanFrom(_, _, _, _, _)
ScanFrom(view, prefix, limit, i, acc) ==
    IF i > Len(KeyOrder) \/ Len(acc) >= limit THEN acc
    ELSE IF HasPrefix(KeyOrder[i], prefix) /\ view[KeyOrder[i]] # NoVal
    THEN ScanFrom(view, prefix, limit, i + 1,
                  Append(acc, [key |-> KeyOrder[i], val |-> view[KeyOrder[i]]]))
    ELSE ScanFrom(view, prefix, limit, i + 1, acc)

\* Txn.Scan, lines 199-223
Scan(t, prefix, limit) ==
    /\ tst[t] = "open"
    /\ IF SkipsScan(limit)
       THEN /\ res' = [res EXCEPT ![t] = [op |-> "Scan", err |-> "nil", val |-> NoVal]]
            /\ scanned' = [scanned EXCEPT ![t] =
                              [prefix |-> prefix, limit |-> limit, sent |-> FALSE,
                               view |-> ViewOf(t), entries |-> <<>>]]
            /\ UNCHANGED <<store, writer, tst, update, sw, nsent, nrecv, lastFrame,
                           ended, srv, snap, wr, rd, dirty, touched>>
       ELSE /\ nsent[t] < MaxOps
            /\ Exchange(t, request(t, "Scan", FALSE).frame,
                        [op |-> "Scan", err |-> "nil", val |-> NoVal])
            /\ scanned' = [scanned EXCEPT ![t] =
                              [prefix |-> prefix, limit |-> limit, sent |-> TRUE,
                               view |-> ViewOf(t),
                               entries |-> ScanFrom(ViewOf(t), prefix,
                                                    ClampLimit(limit), 1, <<>>)]]
            /\ srv' = [srv EXCEPT ![t] = "open"]
            /\ snap' = [snap EXCEPT ![t] = ViewOf(t)]
            /\ wr' = [wr EXCEPT ![t] = IF sw[t] THEN wr[t] ELSE [k \in Keys |-> Unset]]
            /\ rd' = [rd EXCEPT ![t] = (IF sw[t] THEN rd[t] ELSE {})
                                         \cup {k \in Keys : HasPrefix(k, prefix)}]
            /\ dirty' = [dirty EXCEPT ![t] = IF sw[t] THEN dirty[t] ELSE {}]
            /\ UNCHANGED <<store, writer, tst, update, ended, touched>>

\* The server ends the KV transaction of stream t on terminal command cmd:
\* Commit writes the pending writes unless a key the transaction read was
\* committed by another one meanwhile (Conflict); Discard drops them.
Written(t) == {k \in Keys : wr[t][k] # Unset}
Conflicts(t) == Written(t) # {} /\ rd[t] \cap dirty[t] # {}
Terminate(t, cmd) ==
    IF cmd = "Commit" /\ ~Conflicts(t)
    THEN /\ store' = [k \in Keys |-> IF k \in Written(t) THEN wr[t][k] ELSE store[k]]
         /\ writer' = [k \in Keys |-> IF k \in Written(t) THEN t ELSE writer[k]]
         /\ dirty' = [u \in Txns |-> IF u # t /\ srv[u] = "open"
                                     THEN dirty[u] \cup Written(t) ELSE dirty[u]]
         /\ touched' = [u \in Txns |-> IF u # t /\ tst[u] = "open"
                                       THEN touched[u] \cup Written(t) ELSE touched[u]]
         /\ srv' = [srv EXCEPT ![t] = "committed"]
    ELSE /\ srv' = [srv EXCEPT ![t] = "discarded"]
         /\ UNCHANGED <<store, writer, dirty, touched>>

\* The end of a Txn by request r (of Commit or Discard), lines 161-196.
Finish(t, op, r) ==
    /\ tst' = [tst EXCEPT ![t] = "ended"]
    /\ ended' = [ended EXCEPT ![t] = op]
    /\ IF r.noop
       THEN /\ res' = [res EXCEPT ![t] = [op |-> op, err |-> "nil", val |-> NoVal]]
            /\ UNCHANGED <<store, writer, sw, nsent, nrecv, lastFrame, srv, dirty, touched>>
       ELSE /\ Exchange(t, r.frame,
                   [op |-> op, val |-> NoVal,
                    err |-> IF r.frame.cmd = "Commit" /\ Conflicts(t)
                            THEN "Conflict" ELSE "nil"])
            /\ Terminate(t, r.frame.cmd)
    /\ UNCHANGED <<update, snap, wr, rd, scanned>>

\* Txn.Commit, lines 162-180; Client.Update calls it when the body returned
\* nil.
Commit(t) ==
    /\ tst[t] = "open"
    /\ update[t]
    /\ Finish(t, "commit", CommitRequest(t))

\* Txn.Discard, lines 183-196; Client.View calls it when the body returns,
\* Client.Update when the body returned an error.
Discard(t) ==
    /\ tst[t] = "open"
    /\ Finish(t, "discard", DiscardRequest(t))


(***************************************************************************)
(* Part 3b.  The frames of one client Txn on the wire                      *)
(* (src/client/client_txn.go, lines 52-95)                                 *)
(***************************************************************************)

VARIABLES
    wire,        \* the request frames Txn t1 sent, in order
    respq,       \* the response frames the server sent on its stream: each
                 \* is the number of the request frame it answers
    got,         \* the response frames the client read, in order
    fpc,         \* the client: "idle" between requests, "await" between
                 \* request and getRespFrame
    firstFrame,  \* txn.firstFrame # nil
    conn         \* the connection: "up" or "down"

frmVars == <<wire, respq, got, fpc, firstFrame, conn>>

FrmInit ==
    /\ wire = <<>>
    /\ respq = <<>>
    /\ got = <<>>
    /\ fpc = "idle"
    /\ firstFrame = FALSE
    /\ conn = "up"

FrameCmds == {"Set", "Get", "Delete", "Scan", "Commit", "Discard"}

\* The first half of a method of Txn t1 (lines 27-39, 97-105, 120-132,
\* 162-170, 183-191, 199-213): the call of request; r is what request
\* returns when the transport works.
SendOn(cmd, r) ==
    IF r.noop
    THEN \* lines 73-77 and 168-170
         /\ tst' = [tst EXCEPT !["t1"] = "ended"]
         /\ UNCHANGED <<sw, nsent, lastFrame, wire, fpc>>
    ELSE IF conn = "down"
    THEN \* EndWrite or StreamRequest returns an error
         /\ tst' = [tst EXCEPT !["t1"] = IF cmd \in {"Commit", "Discard"} THEN "ended" ELSE @]
         /\ UNCHANGED <<sw, nsent, lastFrame, wire, fpc>>
    ELSE /\ wire' = Append(wire, r.frame)
         /\ sw' = [sw EXCEPT !["t1"] = TRUE]
         /\ nsent' = [nsent EXCEPT !["t1"] = @ + 1]
         /\ lastFrame' = [lastFrame EXCEPT !["t1"] = r.frame]
         /\ fpc' = "await"
         /\ UNCHANGED tst

Send(cmd) ==
    /\ tst["t1"] = "open"
    /\ fpc = "idle"
    /\ cmd \in {"Set", "Delete"} => ~RefusesMutation("t1")
    /\ cmd \notin {"Commit", "Discard"} => nsent["t1"] < MaxOps
    /\ SendOn(cmd, request("t1", cmd, cmd \in {"Commit", "Discard"}))
    /\ UNCHANGED <<store, writer, update, nrecv, res, ended, srv, snap, wr, rd,
                   dirty, touched, scanned, respq, got, firstFrame, conn>>

\* The server's handler answers the next request frame of the stream with
\* one response frame (the handlers are not among the sources; spec 4.5).
Serve ==
    /\ conn = "up"
    /\ Len(respq) < Len(wire)
    /\ respq' = Append(respq, Len(respq) + 1)
    /\ UNCHANGED <<txnVars, wire, got, fpc, firstFrame, conn>>

\* Txn.getRespFrame, lines 52-63, in the second half of the method: the
\* next frame of the stream, from resp.GetFrame() or from the first
\* frame's channel, or an error when the connection is lost.
getRespFrame ==
    /\ fpc = "await"
    /\ fpc' = "idle"
    /\ tst' = [tst EXCEPT !["t1"] = IF lastFrame["t1"].end THEN "ended" ELSE @]
    /\ IF conn = "down"
       THEN UNCHANGED <<got, firstFrame, nrecv>>
       ELSE /\ Len(got) < Len(respq)
            /\ got' = Append(got, respq[Len(got) + 1])
            /\ firstFrame' = TRUE
            /\ nrecv' = [nrecv EXCEPT !["t1"] = @ + 1]
    /\ UNCHANGED <<store, writer, update, sw, nsent, lastFrame, res, ended, srv,
                   snap, wr, rd, dirty, touched, scanned, wire, respq, conn>>

\* The connection is lost.
ConnDown ==
    /\ conn = "up"
    /\ conn' = "down"
    /\ UNCHANGED <<txnVars, wire, respq, got, fpc, firstFrame>>


(***************************************************************************)
(* Part 4: the document Collection (src/document/collection.go) of one DB  *)
(***************************************************************************)

Ops == {"o1", "o2"}                  \* concurrent callers of the collection
Dids == {1, 2}                       \* document ids
Docs == {"x", "y"}                   \* documents (bson.M values)
DidLists == {<<1, 2>>, <<2, 1>>}
\* The calls of the model run at most this many bodies.
MaxCalls == 3
Missing == "missing"

VARIABLES
    dbst,     \* the DB: "open", "closing" (Close was called) or "closed"
    inflight, \* the counter of the close barrier
    opc,      \* per caller: "idle", "checked" (checkState passed), "in"
              \* (barrier passed, body not yet run), "ret" (body ran, the
              \* deferred Done not yet)
    docs,     \* the committed KV store: did -> bytes, or NoVal
    dseq,     \* the last id the collection's documentSequence issued
    ct,       \* the caller's own read-write KV transaction: "none" or "open"
    csnap,    \* its snapshot
    cwr,      \* its pending writes
    last,     \* history: per did the document of the last committed write
              \* that was reported to a caller as done, or Missing
    clast,    \* history: the same for the writes pending in ct, or Unset
    dret,     \* what the last call returned, with what it did to transactions
    ncalls    \* the number of bodies run

docVars == <<dbst, inflight, opc, docs, dseq, ct, csnap, cwr, last, clast, dret, ncalls>>

\* bson.Marshal (lines 33, 94) and bson.Unmarshal (lines 224, 258)
Marshal(doc) == [x |-> "bson(x)", y |-> "bson(y)"][doc]
Unmarshal(bytes) == CHOOSE doc \in Docs : Marshal(doc) = bytes

NoRet == [op |-> "none", txn |-> FALSE, key |-> 0, doc |-> "none", dl |-> <<>>,
          err |-> "nil",
          did |-> 0, updated |-> FALSE, isNew |-> FALSE, data |-> <<>>,
          created |-> "none", commits |-> 0, discards |-> 0,
          ccommits |-> 0, cdiscards |-> 0,
          w |-> Unset, committed |-> FALSE, seq |-> 0]

DocInit ==
    /\ dbst = "open"
    /\ inflight = 0
    /\ opc = [o \in Ops |-> "idle"]
    /\ docs = [d \in Dids |-> NoVal]
    /\ dseq = 0
    /\ ct = "none"
    /\ csnap = [d \in Dids |-> NoVal]
    /\ cwr = [d \in Dids |-> Unset]
    /\ last = [d \in Dids |-> Missing]
    /\ clast = [d \in Dids |-> Unset]
    /\ dret = NoRet
    /\ ncalls = 0

\* DB.checkState, called at lines 39, 100, 160, 199, 231
checkState == IF dbst = "closed" THEN "DBClosed" ELSE "nil"

\* closer.Add(1), called at lines 43, 104, 164, 203, 235
closerAdd == IF dbst # "open" THEN "DBClosing" ELSE "nil"

\* `defer c.db.closer.Done()` (lines 47, 108, 168, 207, 239) is registered
\* by every call that passed the barrier.
DoneNever(passed) == FALSE
DoneDeferred(passed) == passed

\* What the KV transaction the operation runs in reads: the caller's
\* transaction sees its own writes over its snapshot, a new transaction the
\* committed store.
TxnView(withTxn) ==
    IF withTxn THEN [d \in Dids |-> IF cwr[d] # Unset THEN cwr[d] ELSE csnap[d]]
    ELSE docs

\* `if txn == nil { ...; txn = c.kvdb.NewTransaction(rw); defer txn.Discard() }`
\* (lines 59-63, 115-119, 176-180, 211-214, 242-245): the return value of a
\* call on key, before its body did anything.
Entered(kind, key, withTxn, rw) ==
    [NoRet EXCEPT !.op = kind, !.txn = withTxn, !.key = key, !.seq = dseq,
                  !.created = IF withTxn THEN "none" ELSE IF rw THEN "rw" ELSE "ro",
                  !.discards = IF withTxn THEN 0 ELSE 1]

\* `oneshot`, set at lines 60, 116, 177 and tested at lines 69, 135, 185
OneshotAlways(withTxn) == TRUE
Oneshot(withTxn) == ~withTxn

\* `if oneshot { err = txn.Commit(); if err != nil { return } }`
\* (lines 69-74, 135-140, 185-190)
CommitOneshot(r, withTxn, fault) ==
    IF ~Oneshot(withTxn) THEN r
    ELSE LET c == IF withTxn THEN [r EXCEPT !.ccommits = @ + 1]
                  ELSE [r EXCEPT !.commits = @ + 1]
         IN  IF fault = "commit" THEN [c EXCEPT !.err = "CommitErr"]
             ELSE [c EXCEPT !.committed = TRUE]

\* InsertOne after its prologue, lines 50-79
InsertOne(doc, withTxn, fault) ==
    IF fault = "sequence"
    THEN [NoRet EXCEPT !.op = "InsertOne", !.txn = withTxn, !.doc = doc, !.seq = dseq,
                       !.err = "SeqErr"]
    ELSE LET udid == dseq + 1
             r == [Entered("InsertOne", udid, withTxn, TRUE) EXCEPT !.seq = udid, !.doc = doc]
         IN  IF fault = "write" THEN [r EXCEPT !.err = "KVErr"]
             ELSE LET c == CommitOneshot([r EXCEPT !.w = Marshal(doc)], withTxn, fault)
                  IN  IF c.err # "nil" THEN c ELSE [c EXCEPT !.did = udid]

\* `if !exists && !upsert { return }`, line 126
MissNever(exists, upsert) == FALSE
MissReturns(exists, upsert) == ~exists /\ ~upsert

\* updateOne after its prologue, lines 110-145
updateOne(kind, did, doc, upsert, withTxn, fault) ==
    LET r == [Entered(kind, did, withTxn, TRUE) EXCEPT !.doc = doc]
        exists == TxnView(withTxn)[did] # NoVal
    IN  IF fault = "read" THEN [r EXCEPT !.err = "KVErr"]
        ELSE IF MissReturns(exists, upsert) THEN r
        ELSE IF fault = "write" THEN [r EXCEPT !.err = "KVErr"]
        ELSE LET c == CommitOneshot([r EXCEPT !.w = Marshal(doc)], withTxn, fault)
             IN  IF c.err # "nil" THEN c
                 ELSE [c EXCEPT !.updated = TRUE, !.isNew = ~exists]

\* UpdateOne, lines 88-91
UpdateOne(did, doc, withTxn, fault) == updateOne("UpdateOne", did, doc, FALSE, withTxn, fault)

\* UpsertOne, lines 151-154
UpsertOne(did, doc, withTxn, fault) == updateOne("UpsertOne", did, doc, TRUE, withTxn, fault)

\* DeleteOne after its prologue, lines 171-191
DeleteOne(did, withTxn, fault) ==
    LET r == Entered("DeleteOne", did, withTxn, TRUE)
    IN  IF fault = "write" THEN [r EXCEPT !.err = "KVErr"]
        ELSE CommitOneshot([r EXCEPT !.w = NoVal], withTxn, fault)

\* The provider's Txn.Get (part_001, lines 44-62) on the view of a
\* transaction.
ProviderGet(view, did, fault) ==
    IF fault = "read" THEN [err |-> "KVErr", v |-> NoVal]
    ELSE IF view[did] = NoVal THEN [err |-> "KeyNotFound", v |-> NoVal]
    ELSE [err |-> "nil", v |-> view[did]]

\* `if err == provider.ErrKeyNotFound { err = ErrDocNotFound }`, lines
\* 216-219 and 250-253
SubstrateErr(e) == e
DocErr(e) == IF e = "KeyNotFound" THEN "DocNotFound" ELSE e

\* GetOne after its prologue, lines 210-225
GetOne(did, withTxn, fault) ==
    LET r == Entered("GetOne", did, withTxn, FALSE)
        g == ProviderGet(TxnView(withTxn), did, fault)
    IN  IF g.err # "nil" THEN [r EXCEPT !.err = DocErr(g.err)]
        ELSE [r EXCEPT !.data = <<Unmarshal(g.v)>>]

\* The loop of GetMany, lines 248-264, from the i-th id on.
RECURSIVE GetManyFrom(_, _, _, _, _)
GetManyFrom(r, dl, i, view, fault) ==
    IF i > Len(dl) THEN r
    ELSE LET g == ProviderGet(view, dl[i], fault)
         IN  IF g.err # "nil" THEN [r EXCEPT !.err = DocErr(g.err)]
             ELSE GetManyFrom([r EXCEPT !.data = Append(@, Unmarshal(g.v))],
                              dl, i + 1, view, fault)

\* GetMany after its prologue, lines 242-266
GetMany(dl, withTxn, fault) ==
    GetManyFrom([Entered("GetMany", 0, withTxn, FALSE) EXCEPT !.dl = dl],
                dl, 1, TxnView(withTxn), fault)

\* The document a write of bytes w leaves under its key.
Reported(w) == IF w = NoVal THEN Missing ELSE Unmarshal(w)

\* The first line of the prologue: checkState.
DocCall(o) ==
    /\ opc[o] = "idle"
    /\ IF checkState # "nil"
       THEN /\ dret' = [NoRet EXCEPT !.op = "call", !.err = checkState]
            /\ opc' = opc
       ELSE /\ opc' = [opc EXCEPT ![o] = "checked"]
            /\ dret' = dret
    /\ UNCHANGED <<dbst, inflight, docs, dseq, ct, csnap, cwr, last, clast, ncalls>>

\* The second line of the prologue: closer.Add(1).
DocAdd(o) ==
    /\ opc[o] = "checked"
    /\ IF closerAdd # "nil"
       THEN /\ dret' = [NoRet EXCEPT !.op = "call", !.err = closerAdd]
            /\ opc' = [opc EXCEPT ![o] = "idle"]
            /\ inflight' = inflight
       ELSE /\ opc' = [opc EXCEPT ![o] = "in"]
            /\ inflight' = inflight + 1
            /\ dret' = dret
    /\ UNCHANGED <<dbst, docs, dseq, ct, csnap, cwr, last, clast, ncalls>>

\* The effect of a body that returned r: its write reaches the caller's
\* transaction, or the store if its own transaction committed.
DocEffect(r, withTxn) ==
    /\ dret' = [r EXCEPT !.w = Unset, !.committed = FALSE, !.seq = 0]
    /\ dseq' = r.seq
    /\ docs' = IF ~withTxn /\ r.committed /\ r.w # Unset
               THEN [docs EXCEPT ![r.key] = r.w] ELSE docs
    /\ cwr' = IF withTxn /\ r.w # Unset
              THEN [cwr EXCEPT ![r.key] = r.w] ELSE cwr
    /\ last' = IF ~withTxn /\ r.w # Unset /\ r.err = "nil"
               THEN [last EXCEPT ![r.key] = Reported(r.w)] ELSE last
    /\ clast' = IF withTxn /\ r.w # Unset /\ r.err = "nil"
                THEN [clast EXCEPT ![r.key] = Reported(r.w)] ELSE clast

\* The KV operations of each kind of call, one of which may fail.
FaultsOf(kind) ==
    CASE kind = "InsertOne" -> {"none", "sequence", "write", "commit"}
      [] kind \in {"UpdateOne", "UpsertOne"} -> {"none", "read", "write", "commit"}
      [] kind = "DeleteOne" -> {"none", "write", "commit"}
      [] kind \in {"GetOne", "GetMany"} -> {"none", "read"}

\* The rest of the call, in the caller's transaction ct or in one of its
\* own.
DocBody(o) ==
    /\ opc[o] = "in"
    /\ ncalls < MaxCalls
    /\ ncalls' = ncalls + 1
    /\ \E withTxn \in {FALSE, ct = "open"} :
         \/ \E doc \in Docs, fault \in FaultsOf("InsertOne") :
              /\ fault # "sequence" => dseq + 1 \in Dids
              /\ DocEffect(InsertOne(doc, withTxn, fault), withTxn)
         \/ \E did \in Dids, doc \in Docs, fault \in FaultsOf("UpdateOne") :
              DocEffect(UpdateOne(did, doc, withTxn, fault), withTxn)
         \/ \E did \in Dids, doc \in Docs, fault \in FaultsOf("UpsertOne") :
              DocEffect(UpsertOne(did, doc, withTxn, fault), withTxn)
         \/ \E did \in Dids, fault \in FaultsOf("DeleteOne") :
              DocEffect(DeleteOne(did, withTxn, fault), withTxn)
         \/ \E did \in Dids, fault \in FaultsOf("GetOne") :
              DocEffect(GetOne(did, withTxn, fault), withTxn)
         \/ \E dl \in DidLists, fault \in FaultsOf("GetMany") :
              DocEffect(GetMany(dl, withTxn, fault), withTxn)
    /\ opc' = [opc EXCEPT ![o] = "ret"]
    /\ UNCHANGED <<dbst, inflight, ct, csnap>>

\* The call returns and its deferred functions run.
DocReturn(o) ==
    /\ opc[o] = "ret"
    /\ opc' = [opc EXCEPT ![o] = "idle"]
    /\ inflight' = IF DoneDeferred(TRUE) THEN inflight - 1 ELSE inflight
    /\ UNCHANGED <<dbst, docs, dseq, ct, csnap, cwr, last, clast, dret, ncalls>>

\* InsertOne, updateOne: bson.Marshal fails (lines 33-36, 94-97) and the
\* call returns before its prologue.
DocBadDoc(o) ==
    /\ opc[o] = "idle"
    /\ \E kind \in {"InsertOne", "UpdateOne", "UpsertOne"} :
         dret' = [NoRet EXCEPT !.op = kind, !.err = "MarshalErr"]
    /\ UNCHANGED <<dbst, inflight, opc, docs, dseq, ct, csnap, cwr, last, clast, ncalls>>

\* The caller opens a read-write transaction of the KV store to pass to
\* calls.
CallerBegin ==
    /\ ct = "none" /\ dbst # "closed"
    /\ ct' = "open"
    /\ csnap' = docs
    /\ cwr' = [d \in Dids |-> Unset]
    /\ clast' = [d \in Dids |-> Unset]
    /\ UNCHANGED <<dbst, inflight, opc, docs, dseq, last, dret, ncalls>>

\* The caller commits its transaction; the KV store may refuse (Conflict).
CallerCommit ==
    /\ ct = "open" /\ dbst # "closed"
    /\ ct' = "none"
    /\ \E ok \in BOOLEAN :
         /\ docs' = IF ok THEN [d \in Dids |-> IF cwr[d] # Unset THEN cwr[d] ELSE docs[d]]
                    ELSE docs
         /\ last' = IF ok THEN [d \in Dids |-> IF clast[d] # Unset THEN clast[d] ELSE last[d]]
                    ELSE last
    /\ cwr' = [d \in Dids |-> Unset]
    /\ clast' = [d \in Dids |-> Unset]
    /\ UNCHANGED <<dbst, inflight, opc, dseq, csnap, dret, ncalls>>

\* The caller discards its transaction.
CallerDiscard ==
    /\ ct = "open"
    /\ ct' = "none"
    /\ cwr' = [d \in Dids |-> Unset]
    /\ clast' = [d \in Dids |-> Unset]
    /\ UNCHANGED <<dbst, inflight, opc, docs, dseq, csnap, last, dret, ncalls>>

\* DB.Close: sets the closing flag of the barrier ...
CloseBegin ==
    /\ dbst = "open"
    /\ dbst' = "closing"
    /\ UNCHANGED <<inflight, opc, docs, dseq, ct, csnap, cwr, last, clast, dret, ncalls>>

\* ... waits for the counter to reach 0 and tears the KV engine down.
CloseEnd ==
    /\ dbst = "closing"
    /\ inflight = 0
    /\ dbst' = "closed"
    /\ UNCHANGED <<inflight, opc, docs, dseq, ct, csnap, cwr, last, clast, dret, ncalls>>


(***************************************************************************)
(* Part 5: the schema registry of Meta (src/document/meta/meta.go) in one  *)
(* transaction, over the hashes of the structured encoding                 *)
(***************************************************************************)

DbIds == {1, 2}
CollIds == {1}
Infos == {"i1", "i2"}          \* DBInfo / CollectionInfo values
MetaFaults == {"none", "kv"}

\* dbsKey (line 29) and the keys of lines 109-123
dbsKey == "dbs"
dbKey(dbID) == IF dbID = 1 THEN "db:1" ELSE "db:2"
collectionKey(collectionID) == "collection:1"
collectionAutoIncrementIDKey(collectionID) == "collectionAutoID:1"

Hashes == {dbsKey} \cup {dbKey(d) : d \in DbIds}
Fields == {dbKey(d) : d \in DbIds}
          \cup {collectionKey(c) : c \in CollIds}
          \cup {collectionAutoIncrementIDKey(c) : c \in CollIds}

VARIABLES
    hs,       \* the hashes as the transaction sees them: hash -> field ->
              \* value, or NoVal
    mret      \* the last call of a Meta method and what it returned

metaVars == <<hs, mret>>

NoMeta ==
    [op |-> "none", db |-> 0, coll |-> 0, fault |-> "none", err |-> "nil",
     list |-> <<>>, tick |-> 0]

MetaInit ==
    /\ hs = [h \in Hashes |-> [f \in Fields |-> NoVal]]
    /\ mret = NoMeta

\* json.Marshal of a DBInfo or CollectionInfo (lines 201, 217, 239, 307)
MarshalInfo(info) == [i1 |-> "json(i1)", i2 |-> "json(i2)"][info]

\* The hash operations of structure.TxStructure on the hashes h (the
\* package is not among the sources; spec 4.1).  fault: the KV store fails.
HGet(h, hash, field, fault) ==
    IF fault = "kv" THEN "KVError"
    ELSE IF h[hash][field] = NoVal THEN "KeyNotFound" ELSE "nil"
HSet(h, hash, field, v) == [h EXCEPT ![hash][field] = v]
HDel(h, hash, field) == [h EXCEPT ![hash][field] = NoVal]
HClear(h, hash) == [h EXCEPT ![hash] = [f \in Fields |-> NoVal]]

\* checkDBExists, lines 126-132
checkDBExistsRaw(h, k, fault) == HGet(h, dbsKey, k, fault)
checkDBExists(h, k, fault) ==
    IF HGet(h, dbsKey, k, fault) = "KeyNotFound" THEN "DBNotExists"
    ELSE HGet(h, dbsKey, k, fault)

\* checkDBNotExists, lines 134-142
checkDBNotExists(h, k, fault) ==
    IF HGet(h, dbsKey, k, fault) = "KeyNotFound" THEN "nil"
    ELSE IF HGet(h, dbsKey, k, fault) = "nil" THEN "DBExists"
    ELSE HGet(h, dbsKey, k, fault)

\* checkCollectionExists, lines 144-150
checkCollectionExists(h, k, ck) ==
    IF HGet(h, k, ck, "none") = "KeyNotFound" THEN "CollectionNotExists"
    ELSE HGet(h, k, ck, "none")

\* checkCollectionNotExists, lines 152-160
checkCollectionNotExists(h, k, ck) ==
    IF HGet(h, k, ck, "none") = "KeyNotFound" THEN "nil"
    ELSE IF HGet(h, k, ck, "none") = "nil" THEN "CollectionExists"
    ELSE HGet(h, k, ck, "none")

\* A Meta method returned err and left the hashes h.
MetaReturns(op, dbID, collectionID, fault, err, h) ==
    /\ mret' = [op |-> op, db |-> dbID, coll |-> collectionID, fault |-> fault,
                err |-> err, list |-> <<>>, tick |-> 1 - mret.tick]
    /\ hs' = h

\* Meta.CreateDatabase, lines 194-207
CreateDatabase(dbID, info, fault) ==
    MetaReturns("CreateDatabase", dbID, 0, fault,
        checkDBNotExists(hs, dbKey(dbID), fault),
        IF checkDBNotExists(hs, dbKey(dbID), fault) # "nil" THEN hs
        ELSE HSet(hs, dbsKey, dbKey(dbID), MarshalInfo(info)))

\* Meta.UpdateDatabase, lines 210-223
UpdateDatabase(dbID, info, fault) ==
    MetaReturns("UpdateDatabase", dbID, 0, fault,
        checkDBExists(hs, dbKey(dbID), fault),
        IF checkDBExists(hs, dbKey(dbID), fault) # "nil" THEN hs
        ELSE HSet(hs, dbsKey, dbKey(dbID), MarshalInfo(info)))

\* Meta.DropDatabase, lines 248-264
DropDatabase(dbID, fault) ==
    MetaReturns("DropDatabase", dbID, 0, fault,
        checkDBExists(hs, dbKey(dbID), fault),
        IF checkDBExists(hs, dbKey(dbID), fault) # "nil" THEN hs
        ELSE HDel(HClear(hs, dbKey(dbID)), dbsKey, dbKey(dbID)))

\* The two checks of lines 228-237, 270-279 and 295-304: the database, then
\* the collection.
BothChecks(dbErr, collErr) == IF dbErr # "nil" THEN dbErr ELSE collErr

\* Meta.CreateCollection, lines 226-245
CreateCollection(dbID, collectionID, info, fault) ==
    MetaReturns("CreateCollection", dbID, collectionID, fault,
        BothChecks(checkDBExists(hs, dbKey(dbID), fault),
                   checkCollectionNotExists(hs, dbKey(dbID), collectionKey(collectionID))),
        IF BothChecks(checkDBExists(hs, dbKey(dbID), fault),
                      checkCollectionNotExists(hs, dbKey(dbID), collectionKey(collectionID)))
           # "nil"
        THEN hs
        ELSE HSet(hs, dbKey(dbID), collectionKey(collectionID), MarshalInfo(info)))

\* Meta.UpdateCollection, lines 293-313
UpdateCollection(dbID, collectionID, info, fault) ==
    MetaReturns("UpdateCollection", dbID, collectionID, fault,
        BothChecks(checkDBExists(hs, dbKey(dbID), fault),
                   checkCollectionExists(hs, dbKey(dbID), collectionKey(collectionID))),
        IF BothChecks(checkDBExists(hs, dbKey(dbID), fault),
                      checkCollectionExists(hs, dbKey(dbID), collectionKey(collectionID)))
           # "nil"
        THEN hs
        ELSE HSet(hs, dbKey(dbID), collectionKey(collectionID), MarshalInfo(info)))

\* Meta.DropCollection, lines 268-290
DropCollection(dbID, collectionID, delAutoID, fault) ==
    MetaReturns("DropCollection", dbID, collectionID, fault,
        BothChecks(checkDBExists(hs, dbKey(dbID), fault),
                   checkCollectionExists(hs, dbKey(dbID), collectionKey(collectionID))),
        IF BothChecks(checkDBExists(hs, dbKey(dbID), fault),
                      checkCollectionExists(hs, dbKey(dbID), collectionKey(collectionID)))
           # "nil"
        THEN hs
        ELSE IF delAutoID
        THEN HDel(HDel(hs, dbKey(dbID), collectionKey(collectionID)),
                  dbKey(dbID), collectionAutoIncrementIDKey(collectionID))
        ELSE HDel(hs, dbKey(dbID), collectionKey(collectionID)))

\* Meta.GenAutoCollectionID, lines 163-176: HInc creates the counter field
\* of the collection in the hash of its database (the model keeps only that
\* the field is there).
GenAutoCollectionID(dbID, collectionID, fault) ==
    MetaReturns("GenAutoCollectionID", dbID, collectionID, fault,
        BothChecks(checkDBExists(hs, dbKey(dbID), fault),
                   checkCollectionExists(hs, dbKey(dbID), collectionKey(collectionID))),
        IF BothChecks(checkDBExists(hs, dbKey(dbID), fault),
                      checkCollectionExists(hs, dbKey(dbID), collectionKey(collectionID)))
           # "nil"
        THEN hs
        ELSE HSet(hs, dbKey(dbID), collectionAutoIncrementIDKey(collectionID), "counter"))

\* The bytes of the field keys and of collectionPrefix (line 34).
Bytes(text) ==
    CASE text = "collection" -> <<"c","o","l","l","e","c","t","i","o","n">>
      [] text = "collection:1" -> <<"c","o","l","l","e","c","t","i","o","n",":","1">>
      [] text = "collectionAutoID:1" ->
            <<"c","o","l","l","e","c","t","i","o","n","A","u","t","o","I","D",":","1">>
      [] text = "db:1" -> <<"d","b",":","1">>
      [] text = "db:2" -> <<"d","b",":","2">>

collectionPrefix == "collection"

\* bytes.HasPrefix(field, prefix), line 331
BytesHasPrefix(field, prefix) ==
    /\ Len(Bytes(field)) >= Len(Bytes(prefix))
    /\ SubSeq(Bytes(field), 1, Len(Bytes(prefix))) = Bytes(prefix)

\* The fields of a hash in ascending order of their bytes, as HGetAll
\* returns them (spec 4.1).
FieldOrder == <<"collection:1", "collectionAutoID:1", "db:1", "db:2">>

\* json.Unmarshal of a stored value into a CollectionInfo (line 336): the
\* info that was marshalled, or an error for the number of a counter field.
IsInfoJSON(v) == \E info \in Infos : MarshalInfo(info) = v
UnmarshalInfo(v) == CHOOSE info \in Infos : MarshalInfo(info) = v

\* The loop of lines 329-342 over the fields from position i on: the
\* collections appended so far and the error that ended the loop.
RECURSIVE ListFrom(_, _, _)
ListFrom(row, i, acc) ==
    IF i > Len(FieldOrder) THEN [list |-> acc, err |-> "nil"]
    ELSE IF row[FieldOrder[i]] = NoVal \/ ~BytesHasPrefix(FieldOrder[i], collectionPrefix)
    THEN ListFrom(row, i + 1, acc)
    ELSE IF ~IsInfoJSON(row[FieldOrder[i]])
    THEN [list |-> acc, err |-> "UnmarshalError"]
    ELSE ListFrom(row, i + 1, Append(acc, UnmarshalInfo(row[FieldOrder[i]])))

\* Meta.ListCollections, lines 316-344
ListCollections(dbID, fault) ==
    /\ mret' = [op |-> "ListCollections", db |-> dbID, coll |-> 0, fault |-> fault,
                err |-> IF checkDBExists(hs, dbKey(dbID), fault) # "nil"
                        THEN checkDBExists(hs, dbKey(dbID), fault)
                        ELSE ListFrom(hs[dbKey(dbID)], 1, <<>>).err,
                list |-> IF checkDBExists(hs, dbKey(dbID), fault) # "nil"
                         THEN <<>>
                         ELSE ListFrom(hs[dbKey(dbID)], 1, <<>>).list,
                tick |-> 1 - mret.tick]
    /\ hs' = hs

(***************************************************************************)
(* Part 6: the global id counter of Meta (src/document/meta/meta.go,       *)
(* lines 24-26 and 84-107) under concurrent meta transactions              *)
(***************************************************************************)

MTxns == {"m1", "m2"}
MaxGlobalID == 4       \* ids are generated while nextGlobalID stays <= this
MaxStep == 2           \* the largest n of GenGlobalIDs(n)

VARIABLES
    nextGlobalID,    \* the committed value of key nextGlobalID
    globalIDMutex,   \* the transaction holding the mutex, or "free"
    gtxn,            \* per meta transaction: st, the value of the key it
                     \* sees, whether it wrote it, whether a commit of
                     \* another transaction wrote it since this one began,
                     \* its call in progress (0: none, n + 1: GenGlobalIDs(n)),
                     \* the ids returned to it
    gtaken,          \* the ids returned to transactions that committed
    gret             \* the last return of GenGlobalID / GenGlobalIDs

gidVars == <<nextGlobalID, globalIDMutex, gtxn, gtaken, gret>>

NoGTxn == [st |-> "idle", val |-> 0, wrote |-> FALSE, dirty |-> FALSE, n |-> 0, ids |-> {}]
NoGRet == [m |-> "none", n |-> 0, err |-> "nil", ids |-> {}]

GidInit ==
    /\ nextGlobalID = 0
    /\ globalIDMutex = "free"
    /\ gtxn = [m \in MTxns |-> NoGTxn]
    /\ gtaken = {}
    /\ gret = NoGRet

\* A meta transaction begins on the snapshot of the store (NewMeta, line 71).
NewMeta(m) ==
    /\ gtxn[m].st # "open"
    /\ gtxn' = [gtxn EXCEPT ![m] = [NoGTxn EXCEPT !.st = "open", !.val = nextGlobalID]]
    /\ UNCHANGED <<nextGlobalID, globalIDMutex, gtaken, gret>>

\* globalIDMutex.Lock() of GenGlobalID (n = 1, line 86) and of
\* GenGlobalIDs(n) (line 94).
GenLock(m, n) ==
    /\ gtxn[m].st = "open"
    /\ gtxn[m].n = 0
    /\ globalIDMutex = "free"
    /\ gtxn[m].val + n <= MaxGlobalID
    /\ globalIDMutex' = m
    /\ gtxn' = [gtxn EXCEPT ![m].n = n + 1]
    /\ UNCHANGED <<nextGlobalID, gtaken, gret>>

\* The ids of lines 101-105, from the new value of the counter.
GenIDsFromOrig(newID, n) == {i \in 0..MaxGlobalID + 1 : newID - n <= i /\ i < newID}
GenIDs(newID, n) == {i \in 0..MaxGlobalID + 1 : newID - n + 1 <= i /\ i <= newID}

\* txn.Inc(nextGlobalIDKey, n) in the transaction (spec 4.1), the ids of
\* lines 97-106 and the deferred Unlock.
GenReturn(m, fault) ==
    /\ globalIDMutex = m
    /\ globalIDMutex' = "free"
    /\ IF fault
       THEN /\ gtxn' = [gtxn EXCEPT ![m].n = 0]
            /\ gret' = [m |-> m, n |-> gtxn[m].n - 1, err |-> "KVError", ids |-> {}]
       ELSE /\ gtxn' = [gtxn EXCEPT ![m].n = 0,
                                    ![m].val = @ + gtxn[m].n - 1,
                                    ![m].wrote = TRUE,
                                    ![m].ids = @ \cup GenIDs(gtxn[m].val + gtxn[m].n - 1, gtxn[m].n - 1)]
            /\ gret' = [m |-> m, n |-> gtxn[m].n - 1, err |-> "nil",
                        ids |-> GenIDs(gtxn[m].val + gtxn[m].n - 1, gtxn[m].n - 1)]
    /\ UNCHANGED <<nextGlobalID, gtaken>>

\* The commit of the meta transaction: it fails with a conflict when the
\* transaction wrote and a key it read was written by a commit since it
\* began (spec 5, 7).
GidConflicts(m) == gtxn[m].wrote /\ gtxn[m].dirty
MetaCommit(m) ==
    /\ gtxn[m].st = "open"
    /\ gtxn[m].n = 0
    /\ IF GidConflicts(m)
       THEN /\ gtxn' = [gtxn EXCEPT ![m].st = "conflict"]
            /\ UNCHANGED <<nextGlobalID, gtaken>>
       ELSE /\ gtxn' = [u \in MTxns |->
                          IF u = m THEN [gtxn[m] EXCEPT !.st = "committed"]
                          ELSE IF gtxn[u].st = "open" /\ gtxn[m].wrote
                          THEN [gtxn[u] EXCEPT !.dirty = TRUE]
                          ELSE gtxn[u]]
            /\ nextGlobalID' = IF gtxn[m].wrote THEN gtxn[m].val ELSE nextGlobalID
            /\ gtaken' = gtaken \cup gtxn[m].ids
    /\ UNCHANGED <<globalIDMutex, gret>>

\* The meta transaction is discarded.
MetaDiscard(m) ==
    /\ gtxn[m].st = "open"
    /\ gtxn[m].n = 0
    /\ gtxn' = [gtxn EXCEPT ![m].st = "discarded"]
    /\ UNCHANGED <<nextGlobalID, globalIDMutex, gtaken, gret>>

(***************************************************************************)
(* Specifications                                                          *)
(***************************************************************************)

vars == <<seqVars, ddlVars, chkVars, ntfVars, txnVars, frmVars, docVars, metaVars, gidVars>>

Init == SeqInit /\ DDLInit /\ ChkInit /\ NtfInit /\ TxnInit /\ FrmInit /\ DocInit /\ MetaInit /\ GidInit

\* The initial states of the specifications in which no Sequence acts.
RestInit == SeqIdle /\ DDLInit /\ ChkInit /\ NtfInit /\ TxnInit /\ FrmInit /\ DocInit /\ MetaInit /\ GidInit

\* Two Sequence objects on one key: Next, ReleaseRemaining and re-creation
\* in any interleaving.
SeqNext ==
    /\ \E s \in Seqs :
         \/ NextInLease(s)
         \/ UpdateLeaseBegin(s)
         \/ UpdateLeaseCommit(s)
         \/ UpdateLeaseFail(s)
         \/ NextAfterLease(s)
         \/ ReleaseRemaining(s)
         \/ Crash(s)
    /\ UNCHANGED <<ddlVars, chkVars, txnVars, frmVars, docVars, metaVars, gidVars, ntfVars>>

SeqSpec == Init /\ [][SeqNext]_vars

\* One owner of the key that never calls ReleaseRemaining: Next and
\* re-creation after a crash.
CrashNext ==
    /\ \/ NextInLease("s1")
       \/ UpdateLeaseBegin("s1")
       \/ UpdateLeaseCommit("s1")
       \/ UpdateLeaseFail("s1")
       \/ NextAfterLease("s1")
       \/ Crash("s1")
    /\ UNCHANGED <<ddlVars, chkVars, txnVars, frmVars, docVars, metaVars, gidVars, ntfVars>>

CrashSpec == Init /\ [][CrashNext]_vars

\* Submitters and the single worker of the default list.
DDLNext ==
    /\ \/ Enqueue
       \/ WorkerWake
       \/ WorkerNoJob
       \/ WorkerStep
       \/ WorkerAbort
       \/ WorkerRestart
    /\ UNCHANGED <<seqVars, chkVars, txnVars, frmVars, docVars, metaVars, gidVars, ntfVars>>

DDLSpec == RestInit /\ [][DDLNext]_vars

\* One submitter, which enqueues a job and waits for it in checkJob, and
\* the worker.
CheckNext ==
    /\ \/ /\ \/ enqueued = 0 /\ Enqueue
             \/ WorkerWake
             \/ WorkerNoJob
             \/ WorkerStep
             \/ WorkerAbort
             \/ WorkerRestart
          /\ UNCHANGED chkVars
       \/ /\ \/ \E id \in 1..MaxJobs : CheckStart(id)
             \/ CheckCancel
             \/ CheckCtxDone
             \/ \E failed \in BOOLEAN : CheckPoll(failed)
          /\ UNCHANGED ddlVars
    /\ UNCHANGED <<seqVars, txnVars, frmVars, docVars, metaVars, gidVars, ntfVars>>

CheckSpec == RestInit /\ [][CheckNext]_vars

\* The same with the select of checkJob taking a context that stays
\* cancelled.
CheckLiveSpec == CheckSpec /\ WF_chkVars(CheckCtxDone)

\* Three submitters and the worker's select.
NotifyNext ==
    /\ \/ \E u \in Submitters : SubmitJob(u)
       \/ \E u \in Submitters : notifyWorker(u)
       \/ WorkerSelect
       \/ HandleJob
       \/ HandleNoJob
    /\ UNCHANGED <<seqVars, ddlVars, chkVars, txnVars, frmVars, docVars, metaVars, gidVars>>

NotifySpec == RestInit /\ [][NotifyNext]_vars

\* Two client transactions against one server.
TxnNext ==
    /\ \E t \in Txns :
         \/ \E u \in BOOLEAN : Begin(t, u)
         \/ \E k \in Keys, v \in Vals : Set(t, k, v)
         \/ \E k \in Keys : Delete(t, k)
         \/ \E k \in Keys : Get(t, k)
         \/ \E k \in Keys : Exists(t, k)
         \/ Commit(t)
         \/ Discard(t)
    /\ UNCHANGED <<seqVars, ddlVars, chkVars, frmVars, docVars, metaVars, gidVars, ntfVars>>

TxnSpec == RestInit /\ [][TxnNext]_vars

\* A client transaction that fills the store and one that writes and scans.
ScanNext ==
    /\ \/ Begin("t1", TRUE)
       \/ \E k \in Keys, v \in Vals : Set("t1", k, v)
       \/ Commit("t1")
       \/ \E u \in BOOLEAN : Begin("t2", u)
       \/ \E k \in Keys, v \in Vals : Set("t2", k, v)
       \/ \E k \in Keys : Delete("t2", k)
       \/ \E prefix \in Prefixes, limit \in Limits : Scan("t2", prefix, limit)
       \/ Commit("t2")
       \/ Discard("t2")
    /\ UNCHANGED <<seqVars, ddlVars, chkVars, frmVars, docVars, metaVars, gidVars, ntfVars>>

ScanSpec == RestInit /\ [][ScanNext]_vars

\* One client transaction, its stream and the server's answers.
FrameNext ==
    /\ \/ \E u \in BOOLEAN : Begin("t1", u) /\ UNCHANGED frmVars
       \/ \E cmd \in FrameCmds : Send(cmd)
       \/ Serve
       \/ getRespFrame
       \/ ConnDown
    /\ UNCHANGED <<seqVars, ddlVars, chkVars, docVars, metaVars, gidVars, ntfVars>>

FrameSpec == RestInit /\ [][FrameNext]_vars

\* One caller of a collection, with or without a transaction of its own.
DocNext ==
    /\ \/ DocCall("o1")
       \/ DocAdd("o1")
       \/ DocBody("o1")
       \/ DocReturn("o1")
       \/ DocBadDoc("o1")
       \/ CallerBegin
       \/ CallerCommit
       \/ CallerDiscard
    /\ UNCHANGED <<seqVars, ddlVars, chkVars, txnVars, frmVars, metaVars, gidVars, ntfVars>>

DocSpec == RestInit /\ [][DocNext]_vars

\* Two callers of one collection and DB.Close in any interleaving.
CloseNext ==
    /\ \/ \E o \in Ops :
            \/ DocCall(o)
            \/ DocAdd(o)
            \/ DocBody(o)
            \/ DocReturn(o)
       \/ CloseBegin
       \/ CloseEnd
    /\ UNCHANGED <<seqVars, ddlVars, chkVars, txnVars, frmVars, metaVars, gidVars, ntfVars>>

CloseSpec == RestInit /\ [][CloseNext]_vars

\* The methods of one Meta on one transaction, in any order.
MetaNext ==
    /\ \E dbID \in DbIds, fault \in MetaFaults :
         \/ \E info \in Infos : CreateDatabase(dbID, info, fault)
         \/ \E info \in Infos : UpdateDatabase(dbID, info, fault)
         \/ DropDatabase(dbID, fault)
         \/ \E c \in CollIds, info \in Infos : CreateCollection(dbID, c, info, fault)
         \/ \E c \in CollIds, info \in Infos : UpdateCollection(dbID, c, info, fault)
         \/ \E c \in CollIds, delAutoID \in BOOLEAN : DropCollection(dbID, c, delAutoID, fault)
         \/ \E c \in CollIds : GenAutoCollectionID(dbID, c, fault)
         \/ ListCollections(dbID, fault)
    /\ UNCHANGED <<seqVars, ddlVars, chkVars, txnVars, frmVars, docVars, gidVars, ntfVars>>

MetaSpec == RestInit /\ [][MetaNext]_vars

\* Two meta transactions that generate global ids, in any interleaving.
GidNext ==
    /\ \E m \in MTxns :
         \/ NewMeta(m)
         \/ \E n \in 0..MaxStep : GenLock(m, n)
         \/ \E fault \in BOOLEAN : GenReturn(m, fault)
         \/ MetaCommit(m)
         \/ MetaDiscard(m)
    /\ UNCHANGED <<seqVars, ddlVars, chkVars, txnVars, frmVars, docVars, metaVars, ntfVars>>

GidSpec == RestInit /\ [][GidNext]_vars

(***************************************************************************)
(* Claims about the Sequence                                               *)
(***************************************************************************)

\* A step in which Next() of object s returns an id.
Issues(s) == NextInLease(s) \/ NextAfterLease(s)

\* C1: of two successful Next() calls on the same Sequence object the later
\* one returns the strictly greater id, whatever failed lease refreshes,
\* ReleaseRemaining calls and lease refreshes of the other object lie between.
C1_NextStrictlyIncreasing ==
    [][\A s \in Seqs :
         (Issues(s) /\ crashed[s] = 0 /\ lastIssued[s] > 0)
             => lastIssued'[s] > lastIssued[s]]_vars

\* C1 witness: an object has issued several ids, the last one after a
\* refresh that read a counter the other object had advanced.
C1_Witness ==
    \E s \in Seqs :
        /\ lastIssued[s] >= 3 /\ crashed[s] = 0
        /\ lastIssued[s] = next[s]
        /\ \E t \in Seqs \ {s} : lastIssued[t] > 0 /\ lastIssued[t] < lastIssued[s]

\* C5: the persisted counter is at least the largest id any Next() on the key
\* has returned.
C5_PersistedCoversIssued == maxIssued > 0 => persisted >= maxIssued

\* C5 witness: ids were issued up to the persisted counter itself, by an
\* object created after a crash.
C5_Witness ==
    /\ maxIssued >= 2
    /\ persisted = maxIssued
    /\ resume.first = maxIssued

\* C6 (as claimed): whenever the Sequence is not inside a method,
\* next <= leased.
C6_NextLeLeased == \A s \in Seqs : spc[s] = "idle" => next[s] <= leased[s]

\* C7 (as claimed): when ReleaseRemaining() returns after releasing unused
\* ids, the persisted counter equals next and leased equals next.
C7_ReleaseWritesBack ==
    [][\A s \in Seqs :
         (ReleaseRemaining(s) /\ leased[s] # next[s])
             => (persisted' = next'[s] /\ leased'[s] = next'[s])]_vars

\* C8 (as claimed): the first id issued after a crash is greater than the
\* last id issued before it and skips at most bandwidth - 1 ids.
C8_SkipsBelowBandwidth ==
    resume.crashes > 0 =>
        /\ resume.first > resume.prev
        /\ resume.first - resume.prev - 1 <= bandwidth["s1"] - 1

\* C8 (amended): the first id issued after a crash is greater than the last
\* id issued before it and skips at most bandwidth ids for each crash that
\* lies between the two.
C8_SkipsAtMostBandwidthPerCrash ==
    resume.crashes > 0 =>
        /\ resume.first > resume.prev
        /\ resume.first - resume.prev - 1
               <= bandwidth["s1"] * resume.crashes

\* C8 witness: one crash between two ids, and a whole bandwidth skipped.
C8_Witness ==
    /\ resume.crashes = 1
    /\ resume.first - resume.prev - 1 = bandwidth["s1"]

(***************************************************************************)
(* Claims about the DDL worker                                             *)
(***************************************************************************)

\* The job ids of a list of jobs grow from its first to its last element.
Ascending(q) == \A i, j \in 1..Len(q) : i < j => q[i].id < q[j].id

\* C2 (as claimed): every job in the DDL history is there once and carries
\* one of the states Synced, Cancelled, RollbackDone.
C2_HistoryCarriesTerminalState ==
    /\ \A i \in 1..Len(history) : history[i].st \in {"Synced", "Cancelled", "RollbackDone"}
    /\ \A i, j \in 1..Len(history) : history[i].id = history[j].id => i = j

\* C9: the jobs are processed strictly first-in first-out and one at a time.
\* The queue and the history hold the jobs in the order of their enqueueing
\* (ascending ids), every archived job was enqueued before every queued one,
\* runJob is only ever executed on the job at index 0, and a step changes
\* the lists only by appending a new job to the queue, by rewriting the job
\* at index 0, or by moving the job at index 0 to the end of the history.
C9_StrictFIFO ==
    /\ [](/\ Ascending(queue)
          /\ Ascending(history)
          /\ \A i \in 1..Len(history), j \in 1..Len(queue) : history[i].id < queue[j].id
          /\ \A j \in 1..Len(queue) : runs.id <= queue[j].id)
    /\ [][/\ runs' # runs => Len(queue) > 0 /\ runs'.id = queue[1].id
          /\ \/ UNCHANGED <<queue, history>>
             \/ /\ Len(queue') = Len(queue) + 1
                /\ SubSeq(queue', 1, Len(queue)) = queue
                /\ history' = history
             \/ /\ Len(queue) > 0
                /\ Len(queue') = Len(queue)
                /\ queue'[1].id = queue[1].id
                /\ Tail(queue') = Tail(queue)
                /\ history' = history
             \/ /\ Len(queue) > 0
                /\ queue' = Tail(queue)
                /\ Len(history') = Len(history) + 1
                /\ SubSeq(history', 1, Len(history)) = history
                /\ history'[Len(history')].id = queue[1].id]_vars

\* C9 witness: the head job has been run and has failed twice while a later
\* job waits behind it.
C9_Witness ==
    /\ Len(queue) = 2
    /\ runs.id = queue[1].id
    /\ queue[1].errorCount = 2
    /\ wpc = "loop"

\* C10 (as claimed): runJob is executed at most 3 times on a job, and a job
\* that failed is archived only when failNow was set (the database exists
\* already) or its errorCount has reached 3.
C10_RetriedAtMostThreeTimes ==
    /\ runs.n <= jobMaxErrorCount
    /\ \A i \in 1..Len(history) :
          history[i].errorCount > 0 =>
              \/ history[i].errorCount = jobMaxErrorCount
              \/ history[i].err = "DBAlreadyExists"

\* C10 (amended): errorCount never exceeds 3 and a queued job has fewer than
\* 3 errors; an iteration that commits and finds runJobErr set after runJob
\* adds exactly one to the errorCount of the head job, any other adds
\* nothing; the job is archived in that very transaction if runJobErr is set
\* and failNow is set or errorCount has reached 3, or if its state is
\* Cancelled, and is otherwise written back to index 0.
C10_ErrorCountedAndBounded ==
    /\ [](/\ \A i \in 1..Len(queue) : queue[i].errorCount < jobMaxErrorCount
          /\ \A i \in 1..Len(history) : history[i].errorCount <= jobMaxErrorCount
          /\ wloc.job.errorCount <= jobMaxErrorCount)
    /\ [][(WorkerStep /\ ~IsDone(queue[1]) /\ ~IsRollbackDone(queue[1])) =>
            LET j == wloc'.job
                erred == wloc'.runJobErr # "nil"
            IN  /\ j.id = queue[1].id
                /\ j.errorCount = queue[1].errorCount + (IF erred THEN 1 ELSE 0)
                /\ IF \/ erred /\ (wloc'.failNow \/ j.errorCount >= jobMaxErrorCount)
                      \/ IsCancelled(j)
                   THEN queue' = Tail(queue) /\ history' = Append(history, j)
                   ELSE queue' = [queue EXCEPT ![1] = j] /\ history' = history]_vars

\* C10 witness: a job was archived on its third error, after two retries.
C10_Witness ==
    \E i \in 1..Len(history) :
        /\ history[i].errorCount = jobMaxErrorCount
        /\ history[i].err = "KVError"
        /\ runs = [id |-> history[i].id, n |-> jobMaxErrorCount]

(***************************************************************************)
(* Claims about the client transaction                                     *)
(***************************************************************************)

\* C3: a transaction that is discarded leaves no mutation in the committed
\* store: every committed value was written by a transaction that ended
\* with Commit, and a Discard step does not change the store.
C3_DiscardLeavesNoMutation ==
    /\ [](\A k \in Keys : writer[k] # "init" => ended[writer[k]] = "commit")
    /\ [][\A t \in Txns : Discard(t) => store' = store]_vars

\* C3 witness: an update transaction sent a Set or Delete, was discarded,
\* and the store does not hold what it wrote.
C3_Witness ==
    \E t \in Txns, k \in Keys :
        /\ update[t] /\ ended[t] = "discard" /\ srv[t] = "discarded"
        /\ wr[t][k] # Unset
        /\ store[k] # wr[t][k]

C11_DuplicateEndsCancelled ==
    \A i \in 1..Len(history) :
        history[i].err = "DBAlreadyExists" => history[i].st = "Cancelled"

\* C12 (as claimed): the persisted schemaVersion counts exactly the jobs
\* that end Synced (those in the history in state Synced and the one that
\* is Done and waits at the head to be synced), and every version up to it
\* has its SchemaDiff.
C12_VersionCountsSyncedJobs ==
    /\ schemaVersion = Cardinality({i \in 1..Len(history) : history[i].st = "Synced"})
                       + Cardinality({i \in 1..Len(queue) : queue[i].st = "Done"})
    /\ diffs = 1..schemaVersion

(***************************************************************************)
(* Claims about the document Collection                                    *)
(***************************************************************************)

Mutators == {"InsertOne", "UpdateOne", "UpsertOne", "DeleteOne"}
Readers == {"GetOne", "GetMany"}

\* The last call got past its prologue and ran its body.
BodyReturned == dret.op \in Mutators \cup Readers /\ dret.err # "MarshalErr"

\* C13 (as claimed): a call without a transaction creates one of its own,
\* read-write for a mutator and read-only for a reader, and commits it
\* exactly once; a call with the caller's transaction neither commits nor
\* discards it.
C13_OwnTxnCommittedOnce ==
    BodyReturned =>
        IF dret.txn
        THEN dret.ccommits = 0 /\ dret.cdiscards = 0
        ELSE /\ dret.created = IF dret.op \in Mutators THEN "rw" ELSE "ro"
             /\ dret.commits = 1

\* C13 (amended): a call without a transaction that got past the id
\* allocation creates one transaction of its own, read-write for a mutator
\* and read-only for a reader, and ends it exactly once by the deferred
\* Discard; Commit is called on it exactly once if the call is a mutator
\* whose write succeeded and never otherwise.  A call with the caller's
\* transaction creates none and neither commits nor discards the caller's.
C13_OwnTxnEndedOnce ==
    BodyReturned =>
        IF dret.txn
        THEN /\ dret.created = "none" /\ dret.commits = 0 /\ dret.discards = 0
             /\ dret.ccommits = 0 /\ dret.cdiscards = 0
        ELSE /\ dret.ccommits = 0 /\ dret.cdiscards = 0
             /\ IF dret.err = "SeqErr"
                THEN dret.created = "none" /\ dret.commits = 0 /\ dret.discards = 0
                ELSE /\ dret.created = IF dret.op \in Mutators THEN "rw" ELSE "ro"
                     /\ dret.discards = 1
                     /\ dret.commits =
                          IF /\ dret.op \in Mutators
                             /\ \/ dret.err = "CommitErr"
                                \/ dret.err = "nil" /\ (dret.op = "UpdateOne" => dret.updated)
                          THEN 1 ELSE 0

\* C13 witness: an UpsertOne wrote into the caller's transaction, which is
\* still open with the write pending.
C13_Witness ==
    /\ dret.op = "UpsertOne" /\ dret.txn /\ dret.updated /\ dret.err = "nil"
    /\ ct = "open" /\ cwr[dret.key] \notin {Unset, NoVal}
    /\ docs[dret.key] = NoVal

\* The callers that passed the barrier and have not returned.
InFlight == {o \in Ops : opc[o] \in {"in", "ret"}}

\* C14: under any interleaving of two callers with DB.Close, the barrier is
\* passed only while the DB is open, a call refused with DBClosed or
\* DBClosing changes neither the KV store nor the sequence, the counter of
\* the barrier is the number of calls in flight (every call that passed
\* decrements it exactly once when it returns), and the DB is closed only
\* with no call in flight.
C14_CloseBarrier ==
    /\ [](inflight = Cardinality(InFlight))
    /\ [](dbst = "closed" => InFlight = {})
    /\ [][/\ \A o \in Ops : (opc[o] # "in" /\ opc'[o] = "in") => dbst = "open"
          /\ \A o \in Ops : DocReturn(o) => inflight' = inflight - 1
          /\ (dret' # dret /\ dret'.err \in {"DBClosed", "DBClosing"}) =>
                 UNCHANGED <<docs, dseq, cwr, inflight>>]_vars

\* C14 witness: Close was called while a call was in flight; a call that
\* started afterwards was refused with DBClosing and the first one is still
\* counted.
C14_Witness ==
    /\ dbst = "closing" /\ dret.err = "DBClosing"
    /\ opc["o1"] = "in" /\ opc["o2"] = "idle" /\ inflight = 1

\* C15: when no KV operation fails, UpdateOne on an id that does not exist
\* (in the transaction it runs in) returns updated = false with a nil error
\* and writes nothing; on an existing id it writes the document and returns
\* updated = true; UpsertOne writes the document and returns isNew = true
\* exactly when the id did not exist.
C15_UpdateAndUpsert ==
    [][(/\ ncalls' # ncalls
        /\ dret'.op \in {"UpdateOne", "UpsertOne"}
        /\ dret'.err \notin {"KVErr", "CommitErr"}) =>
           LET did == dret'.key
               existed == TxnView(dret'.txn)[did] # NoVal
               written == IF dret'.txn THEN cwr'[did] = Marshal(dret'.doc)
                          ELSE docs'[did] = Marshal(dret'.doc)
           IN  /\ dret'.err = "nil"
               /\ dret'.op = "UpdateOne" =>
                    /\ dret'.updated = existed
                    /\ IF existed THEN written ELSE docs' = docs /\ cwr' = cwr
               /\ dret'.op = "UpsertOne" =>
                    /\ dret'.updated
                    /\ dret'.isNew = ~existed
                    /\ written]_vars

\* C15 witness: an UpdateOne without a transaction on an id that is not in
\* the store returned updated = false and a nil error.
C15_Witness ==
    /\ dret.op = "UpdateOne" /\ ~dret.txn /\ dret.err = "nil" /\ ~dret.updated
    /\ docs[dret.key] = NoVal /\ opc["o1"] = "ret"

\* C16: GetOne(did) without a transaction returns the document of the last
\* write under did that was done (Missing after a delete or without one),
\* with DocNotFound and never the substrate's KeyNotFound when there is
\* none; GetMany returns the documents in the order of the ids asked for and
\* DocNotFound if one of them is missing.
C16_GetReturnsLastWritten ==
    /\ [](dret.err # "KeyNotFound")
    /\ [][(ncalls' # ncalls /\ ~dret'.txn /\ dret'.err # "KVErr") =>
            /\ dret'.op = "GetOne" =>
                  IF last[dret'.key] = Missing
                  THEN dret'.err = "DocNotFound" /\ dret'.data = <<>>
                  ELSE dret'.err = "nil" /\ dret'.data = <<last[dret'.key]>>
            /\ dret'.op = "GetMany" =>
                  IF \E i \in 1..Len(dret'.dl) : last[dret'.dl[i]] = Missing
                  THEN dret'.err = "DocNotFound"
                  ELSE /\ dret'.err = "nil"
                       /\ dret'.data = [i \in 1..Len(dret'.dl) |-> last[dret'.dl[i]]]]_vars

\* C16 witness: after two other calls a GetOne without a transaction
\* returned the document the store holds under an id that InsertOne issued.
C16_Witness ==
    /\ dret.op = "GetOne" /\ ~dret.txn /\ dret.err = "nil"
    /\ ncalls = 3 /\ dret.key <= dseq
    /\ dret.data = <<last[dret.key]>> /\ docs[dret.key] = Marshal(last[dret.key])

(***************************************************************************)
(* Claims about reads, scans and the end of a client transaction           *)
(***************************************************************************)

Matching(view, prefix) == {k \in Keys : HasPrefix(k, prefix) /\ view[k] # NoVal}
Pos(k) == CHOOSE i \in 1..Len(KeyOrder) : KeyOrder[i] = k
Least(S) == CHOOSE x \in S : \A y \in S : x <= y

\* The entries e are entries of the view that match the prefix, in
\* ascending order of their keys.
AscendingMatches(e, view, prefix) ==
    /\ \A i \in 1..Len(e) : e[i].key \in Matching(view, prefix) /\ e[i].val = view[e[i].key]
    /\ \A i, j \in 1..Len(e) : i < j => Pos(e[i].key) < Pos(e[j].key)

C19_EmptyEndIsNoop ==
    [][\A t \in Txns :
         (Commit(t) \/ Discard(t)) =>
             IF ~sw[t]
             THEN /\ nsent' = nsent /\ nrecv' = nrecv /\ sw' = sw
                  /\ lastFrame' = lastFrame /\ srv' = srv /\ store' = store
                  /\ res'[t].err = "nil"
             ELSE /\ nsent'[t] = nsent[t] + 1 /\ nrecv'[t] = nrecv[t] + 1
                  /\ lastFrame'[t].end /\ ~lastFrame'[t].start
                  /\ lastFrame'[t].cmd = IF ended'[t] = "commit" THEN "Commit"
                                         ELSE "Discard"]_vars

\* C19 witness: an Update transaction whose body sent nothing was committed:
\* no frame was sent, no stream is open, the server has no transaction for
\* it and Commit returned nil.
C19_Witness ==
    \E t \in Txns :
        /\ update[t] /\ tst[t] = "ended" /\ ended[t] = "commit"
        /\ nsent[t] = 0 /\ nrecv[t] = 0 /\ ~sw[t] /\ srv[t] = "none"
        /\ res[t].op = "commit" /\ res[t].err = "nil"

(***************************************************************************)
(* Claims about the schema registry                                        *)
(***************************************************************************)

\* The domain error the existence preconditions of a Meta mutation demand
\* when the database is (dbThere) or is not in hash dbs and the collection
\* is (collThere) or is not in the hash of the database; "nil" when they hold.
DomainError(op, dbThere, collThere) ==
    CASE op = "CreateDatabase" -> IF dbThere THEN "DBExists" ELSE "nil"
      [] op \in {"UpdateDatabase", "DropDatabase"} ->
            IF dbThere THEN "nil" ELSE "DBNotExists"
      [] op = "CreateCollection" ->
            IF ~dbThere THEN "DBNotExists"
            ELSE IF collThere THEN "CollectionExists" ELSE "nil"
      [] OTHER ->
            IF ~dbThere THEN "DBNotExists"
            ELSE IF collThere THEN "nil" ELSE "CollectionNotExists"

MetaMutations ==
    {"CreateDatabase", "UpdateDatabase", "DropDatabase",
     "CreateCollection", "UpdateCollection", "DropCollection"}

\* C20: a Meta mutation whose existence precondition is violated returns
\* the domain error of that precondition (DBExists, DBNotExists,
\* CollectionExists, CollectionNotExists) and leaves every hash as it was;
\* with the preconditions met and the store answering it succeeds; no
\* mutation ever returns the substrate's KeyNotFound, and none that returns
\* an error has written.
C20_PreconditionsReturnDomainErrors ==
    [][(mret'.tick # mret.tick /\ mret'.op \in MetaMutations) =>
          /\ mret'.err # "KeyNotFound"
          /\ mret'.err # "nil" => hs' = hs
          /\ mret'.fault = "none" =>
                mret'.err = DomainError(mret'.op,
                                hs[dbsKey][dbKey(mret'.db)] # NoVal,
                                mret'.coll # 0
                                   /\ hs[dbKey(mret'.db)][collectionKey(mret'.coll)] # NoVal)]_vars

\* CreateCollection met an existing collection id in an existing database
\* that also holds a counter field, and returned CollectionExists.
C20_Witness ==
    /\ mret.op = "CreateCollection"
    /\ mret.err = "CollectionExists"
    /\ hs[dbsKey][dbKey(mret.db)] # NoVal
    /\ hs[dbKey(mret.db)][collectionKey(mret.coll)] # NoVal
    /\ hs[dbKey(mret.db)][collectionAutoIncrementIDKey(mret.coll)] # NoVal
    /\ hs[dbsKey][dbKey(3 - mret.db)] = NoVal

\* The collections of database dbID that were created and not dropped since.
LiveCollections(h, dbID) ==
    {c \in CollIds : h[dbKey(dbID)][collectionKey(c)] # NoVal}

\* C21: ListCollections on an existing database succeeds and returns one
\* entry per collection created there and not dropped since, and nothing
\* else, whatever counter fields GenAutoCollectionID left in the hash of
\* the database.
C21_ListCollectionsExact ==
    [][(mret'.tick # mret.tick /\ mret'.op = "ListCollections"
            /\ mret'.fault = "none" /\ hs[dbsKey][dbKey(mret'.db)] # NoVal) =>
          /\ mret'.err = "nil"
          /\ Len(mret'.list) = Cardinality(LiveCollections(hs, mret'.db))
          /\ \A c \in LiveCollections(hs, mret'.db) :
                \E i \in 1..Len(mret'.list) :
                    MarshalInfo(mret'.list[i]) = hs[dbKey(mret'.db)][collectionKey(c)]]_vars

(***************************************************************************)
(* Claims about the global id counter                                      *)
(***************************************************************************)

\* C22: a successful GenGlobalIDs(n) returns the n consecutive ids that end
\* at the new value of nextGlobalID in its transaction, none of them
\* returned to that transaction before; and the ids returned to a
\* transaction that commits were returned to no transaction that committed
\* before it, whether the two ran one after the other or concurrently.
C22_GlobalIDsNeverShared ==
    [][\A m \in MTxns :
         /\ (globalIDMutex = m /\ globalIDMutex' = "free" /\ gret'.err = "nil") =>
               /\ Cardinality(gret'.ids) = gret'.n
               /\ \A i \in gret'.ids : gtxn'[m].val - gret'.n < i /\ i <= gtxn'[m].val
               /\ gret'.ids \cap gtxn[m].ids = {}
         /\ (gtxn[m].st = "open" /\ gtxn'[m].st = "committed") =>
               gtxn[m].ids \cap gtaken = {}]_vars

\* Both transactions committed ids they generated, and every id up to
\* MaxGlobalID was returned to a transaction that committed.
C22_Witness ==
    /\ gtxn["m1"].st = "committed" /\ gtxn["m1"].ids # {}
    /\ gtxn["m2"].st = "committed" /\ gtxn["m2"].ids # {}
    /\ gtxn["m1"].ids \cap gtxn["m2"].ids = {}
    /\ Cardinality(gtaken) = MaxGlobalID

(***************************************************************************)
(* Claims about checkJob                                                   *)
(***************************************************************************)

\* C23: checkJob does not return while the job is not in the history and
\* the context is not cancelled; when it returns from a poll, the job is
\* in the history and the value is nil if the job is Synced and the job's
\* non-nil Error otherwise, never the panic of its last line; it returns
\* the context's error only when the context is cancelled, and once the
\* context is cancelled it returns; every job in the history in a state
\* other than Synced has a non-nil Error.
C23_CheckJobReturns ==
    /\ [][/\ (cpc = "loop" /\ ~cctx /\ GetHistoryJob(cjob) = NoJob) => cpc' # "returned"
          /\ (cpc = "loop" /\ cpc' = "returned") =>
                /\ cret' # "panic"
                /\ cret' = "ctx" => cctx
                /\ cret' # "ctx" =>
                      /\ GetHistoryJob(cjob) # NoJob
                      /\ IsSynced(GetHistoryJob(cjob)) => cret' = "nil"
                      /\ ~IsSynced(GetHistoryJob(cjob)) =>
                            cret' = GetHistoryJob(cjob).err /\ cret' # "nil"]_vars
    /\ [](\A i \in 1..Len(history) : ~IsSynced(history[i]) => history[i].err # "nil")
    /\ ((cpc = "loop" /\ cctx) ~> (cpc = "returned"))

\* checkJob returned the error of its job, which the worker archived after
\* the third failed run.
C23_Witness ==
    /\ cpc = "returned"
    /\ cret = "KVError"
    /\ GetHistoryJob(cjob).errorCount = jobMaxErrorCount
    /\ ~IsSynced(GetHistoryJob(cjob))

(***************************************************************************)
(* Claims about the frames of a client Txn                                 *)
(***************************************************************************)

\* C24: of the request frames of one Txn only the first carries the
\* stream-start flag, and it carries the RW opaque bit exactly when the Txn
\* is an update; the client has at most one request frame without its
\* response read, and none between two methods while the connection is
\* up; the k-th response frame it reads answers its k-th request frame.
C24_OneResponsePerRequest ==
    /\ \A i \in 1..Len(wire) :
          /\ wire[i].start <=> i = 1
          /\ wire[i].rw <=> (i = 1 /\ update["t1"])
    /\ Len(wire) - Len(got) \in {0, 1}
    /\ fpc = "await" => Len(wire) = Len(got) + 1
    /\ (fpc = "idle" /\ conn = "up") => Len(wire) = Len(got)
    /\ \A k \in 1..Len(got) : got[k] = k
    /\ nsent["t1"] = Len(wire) /\ nrecv["t1"] = Len(got)

\* An update Txn sent MaxOps data frames and its Commit and read a response
\* for each of them.
C24_Witness ==
    /\ update["t1"]
    /\ Len(wire) = MaxOps + 1
    /\ wire[Len(wire)].cmd = "Commit" /\ wire[Len(wire)].end
    /\ Len(got) = Len(wire)
    /\ firstFrame

(***************************************************************************)
(* Claims about the worker's failure handling                              *)
(***************************************************************************)

\* The jobs in the committed queue and history.
Persisted == {queue[i] : i \in 1..Len(queue)} \cup {history[i] : i \in 1..Len(history)}

\* C25: an iteration of handleJobQueue whose transaction fails to commit
\* invokes at most the cleanup its own runJob registered (it drops no
\* sequences but those of the job it ran), and the worker does not fault,
\* whether or not a cleanup was registered.
C25_CleanupOnlyIfRegistered ==
    [][(wpc = "loop" /\ getFirstJob(MetaView) # NoJob /\ wpc' # "loop") =>
          /\ wpc' # "fault"
          /\ docSeqs \ docSeqs' \subseteq {getFirstJob(MetaView).id}]_vars

\* C26: a job that panicked is persisted in state Cancelling with a non-nil
\* error, and reaches the history as RollbackDone, never as Cancelling.
C26_PanicEndsRollbackDone ==
    /\ \A i \in 1..Len(queue) : queue[i].st = "Cancelling" => queue[i].err # "nil"
    /\ \A i \in 1..Len(history) : history[i].st # "Cancelling"

\* C28: the document sequences of a job whose CreateSchema committed (the
\* job is Done or Synced) exist: no later transaction's failure drops them.
C28_CommittedSequencesStay ==
    \A j \in Persisted : j.st \in {"Done", "Synced"} => j.id \in docSeqs

\* C29: a database and its collections are in the committed meta store
\* exactly when a CreateSchema job for that name is Done or Synced; a job
\* whose run failed or that was cancelled leaves neither.
C29_CreateSchemaAllOrNothing ==
    \A name \in DBNames :
        /\ name \in dbs <=> name \in colls
        /\ name \in dbs <=>
              \E j \in Persisted : j.name = name /\ j.tp = "CreateSchema"
                                   /\ j.st \in {"Done", "Synced"}

(***************************************************************************)
(* Claims about the notify channel                                         *)
(***************************************************************************)

\* C27: notifyWorker returns without waiting; a wake-up sent while the
\* worker is inside handleJobQueue and the channel is empty is kept in the
\* channel (capacity 1), and only a wake-up that finds the channel full is
\* dropped; the channel never holds more than one.
C27_ChannelKeepsOneWakeUp ==
    [][\A u \in Submitters :
         (subpc[u] = "notify" /\ subpc'[u] = "idle") =>
             /\ (npc = "handle" /\ jobCh = 0) => (jobCh' = 1 /\ sent' = "kept")
             /\ sent' = "dropped" => jobCh = 1
             /\ jobCh' <= 1]_vars

====
